---- MODULE Spec2Model ----
(***************************************************************************)
(* Model of the dyeing analysis front end: the colour-science utilities    *)
(* (interpolate, reflectanceToColor, RtoKS, KStoR), the PredictionPanel    *)
(* that composes them, and the ConcentrationPanel's handleAnalyze.         *)
(*                                                                         *)
(* Numbers.  The code computes in IEEE doubles.  The model computes the    *)
(* same real-number expressions exactly where they are rational and rounds *)
(* down to a multiple of 1/FP (one millionth) where they are not:          *)
(*   - a reflectance, an X/Y/Z or a Lab value v is the integer v * FP;     *)
(*   - a K/S value is an exact fraction [num, den] in lowest terms;        *)
(*   - integers wider than 32 bits (products under a square root or a      *)
(*     power) are sequences of base-10^4 limbs, least significant first.   *)
(***************************************************************************)
EXTENDS Integers, Sequences, FiniteSets, TLC

FP == 10 ^ 6

\* a function with its values computed once, not at every application
Table(fn) == fn @@ << >>

Max2(a, b) == IF a >= b THEN a ELSE b
Min2(a, b) == IF a <= b THEN a ELSE b
Abs(a) == IF a < 0 THEN -a ELSE a

RECURSIVE Gcd(_, _)
Gcd(a, b) == IF b = 0 THEN a ELSE Gcd(b, a % b)

(***************************************************************************)
(* Exact fractions: the values of RtoKS and of depthFactor.                *)
(***************************************************************************)
Rat(n, d) ==
    LET g == Gcd(Abs(n), Abs(d))
    IN  IF g = 0 THEN [num |-> n, den |-> d]
        ELSE [num |-> n \div g, den |-> d \div g]

\* a * b for fractions, cross-reduced first so the products stay small
RatMul(a, b) ==
    LET g1 == Max2(1, Gcd(Abs(a.num), b.den))
        g2 == Max2(1, Gcd(Abs(b.num), a.den))
    IN  Rat((a.num \div g1) * (b.num \div g2), (a.den \div g2) * (b.den \div g1))

(***************************************************************************)
(* Wide naturals: sequences of limbs in base 10^4, least significant       *)
(* first, without leading zero limbs (the empty sequence is 0).            *)
(***************************************************************************)
BigBase == 10 ^ 4

RECURSIVE Big(_)
Big(n) == IF n = 0 THEN << >> ELSE <<n % BigBase>> \o Big(n \div BigBase)

RECURSIVE Trim(_)
Trim(a) ==
    IF a = << >> THEN a
    ELSE IF a[Len(a)] = 0 THEN Trim(SubSeq(a, 1, Len(a) - 1)) ELSE a

\* carries (or borrows, for negative limbs) propagated from the low end
RECURSIVE Carry(_, _, _)
Carry(raw, i, c) ==
    IF i > Len(raw) THEN (IF c = 0 THEN << >> ELSE Big(c))
    ELSE LET v == raw[i] + c
         IN  <<v % BigBase>> \o Carry(raw, i + 1, v \div BigBase)

Limb(a, i) == IF i >= 1 /\ i <= Len(a) THEN a[i] ELSE 0

BigAdd(a, b) ==
    Trim(Carry([i \in 1..Max2(Len(a), Len(b)) |-> Limb(a, i) + Limb(b, i)], 1, 0))

\* a - b, for a >= b
BigSub(a, b) ==
    Trim(Carry([i \in 1..Len(a) |-> Limb(a, i) - Limb(b, i)], 1, 0))

RECURSIVE Conv(_, _, _, _)
Conv(a, b, k, i) ==
    IF i > Len(a) \/ i > k THEN 0
    ELSE a[i] * Limb(b, k + 1 - i) + Conv(a, b, k, i + 1)

BigMul(a, b) ==
    IF a = << >> \/ b = << >> THEN << >>
    ELSE Trim(Carry([k \in 1..(Len(a) + Len(b) - 1) |-> Conv(a, b, k, 1)], 1, 0))

BigLeq(a, b) ==
    IF Len(a) # Len(b) THEN Len(a) < Len(b)
    ELSE LET D == {i \in 1..Len(a) : a[i] # b[i]}
         IN  D = {} \/ LET top == CHOOSE i \in D : \A j \in D : j <= i
                       IN  a[top] < b[top]

BigSq(a) == BigMul(a, a)

(***************************************************************************)
(* Largest k in lo..hi for which the monotone condition AtLeast(tag, d, k)  *)
(* holds (it holds at lo): how a root or a quotient is rounded down to an   *)
(* integer number of units.                                                *)
(***************************************************************************)
\* m / FP <= 1 + KS - sqrt(KS^2 + 2 KS), with KS = A / B:
\*   ((A + B) FP - m B)^2 >= (A^2 + 2 A B) FP^2
\* d holds what does not depend on m: sum = (A + B) FP, den = B and
\* radicand = (A^2 + 2 A B) FP^2
KStoRAtLeast(d, m) ==
    BigLeq(d.radicand, BigSq(BigSub(d.sum, BigMul(Big(m), d.den))))

\* k <= n / d for wide naturals n, d
DivAtLeast(q, k) == BigLeq(BigMul(Big(k), q.d), q.n)

\* k / FP <= cbrt(num / den):  k^3 * den <= num * FP^3;
\* d holds den and scaled = num * FP^3
CbrtAtLeast(d, k) ==
    BigLeq(BigMul(BigMul(BigSq(Big(k)), Big(k)), d.den), d.scaled)

Pow5(a) == BigMul(BigSq(BigSq(a)), a)
Pow12(a) == BigSq(BigSq(BigMul(BigSq(a), a)))

GammaDen12 == Pow12(Big(10761))
FP5 == Pow5(Big(FP))

\* k <= 255 * (1.055 * c^(1/2.4) - 0.055) + 0.5, with c = cm / FP:
\*   c^(5/12) >= (k - 0.5 + 255 * 0.055) / (255 * 1.055) = (40 k + 541) / 10761
\*   cm^5 * 10761^12 >= (40 k + 541)^12 * FP^5;
\* d is the left-hand side
GammaAtLeast(d, k) == BigLeq(BigMul(Pow12(Big(40 * k + 541)), FP5), d)

AtLeast(tag, d, k) ==
    CASE tag = "KStoR" -> KStoRAtLeast(d, k)
      [] tag = "div" -> DivAtLeast(d, k)
      [] tag = "cbrt" -> CbrtAtLeast(d, k)
      [] tag = "gamma" -> GammaAtLeast(d, k)

RECURSIVE Bisect(_, _, _, _)
Bisect(tag, d, lo, hi) ==
    IF lo >= hi THEN lo
    ELSE LET mid == lo + ((hi - lo + 1) \div 2)
         IN  IF AtLeast(tag, d, mid) THEN Bisect(tag, d, mid, hi)
             ELSE Bisect(tag, d, lo, mid - 1)

(***************************************************************************)
(* Kubelka-Munk (utils/color).                                             *)
(***************************************************************************)
RMin == 1000
RMax == 999000

\* RtoKS with the factor 2 of the denominator left out
RtoKSNoHalf(R) ==
    LET rNorm == Max2(RMin, Min2(RMax, R))
        r == Rat(rNorm, FP)
    IN  Rat((r.den - r.num) * (r.den - r.num), r.num * r.den)

\* RtoKS without the clamp
RtoKSUnclamped(R) ==
    LET r == Rat(R, FP)
    IN  Rat((r.den - r.num) * (r.den - r.num), 2 * r.num * r.den)

\* RtoKS: K/S = (1 - R)^2 / (2 R), R clamped to [0.001, 0.999]
RtoKS(R) ==
    LET rNorm == Max2(RMin, Min2(RMax, R))
        r == Rat(rNorm, FP)
    IN  Rat((r.den - r.num) * (r.den - r.num), 2 * r.num * r.den)

\* KStoR: R = 1 + K/S - sqrt((K/S)^2 + 2 K/S), rounded down to 1/FP
KStoR(KS) ==
    LET A == KS.num
        B == KS.den
    IN  Bisect("KStoR",
               [sum |-> BigMul(Big(A + B), Big(FP)),
                den |-> Big(B),
                radicand |-> BigMul(BigMul(Big(A), Big(A + 2 * B)), BigSq(Big(FP)))],
               0, FP)

(***************************************************************************)
(* Colour science (utils/color).                                           *)
(* cmfData: wavelength, then x, y, z in units of 10^-4 and d65 in units of *)
(* 10^-2, as tabulated in the source.                                      *)
(***************************************************************************)
cmfRows == <<
    <<400, 143, 4, 679, 8275>>,
    <<410, 435, 12, 2074, 9149>>,
    <<420, 1344, 40, 6456, 9343>>,
    <<430, 2839, 116, 13856, 8668>>,
    <<440, 3483, 230, 17471, 10486>>,
    <<450, 3362, 380, 17721, 11701>>,
    <<460, 2908, 600, 16692, 11781>>,
    <<470, 1954, 910, 12876, 11486>>,
    <<480, 956, 1390, 8130, 11592>>,
    <<490, 320, 2080, 4652, 10881>>,
    <<500, 49, 3230, 2720, 10935>>,
    <<510, 93, 5030, 1582, 10780>>,
    <<520, 633, 7100, 782, 10479>>,
    <<530, 1655, 8620, 422, 10769>>,
    <<540, 2904, 9540, 203, 10441>>,
    <<550, 4334, 9950, 87, 10405>>,
    <<560, 5945, 9950, 39, 10000>>,
    <<570, 7621, 9520, 21, 9633>>,
    <<580, 9163, 8700, 17, 9579>>,
    <<590, 10263, 7570, 11, 8869>>,
    <<600, 10622, 6310, 8, 9001>>,
    <<610, 10026, 5030, 3, 8960>>,
    <<620, 8544, 3810, 2, 8770>>,
    <<630, 6424, 2650, 0, 8329>>,
    <<640, 4479, 1750, 0, 8370>>,
    <<650, 2835, 1070, 0, 8003>>,
    <<660, 1649, 610, 0, 8021>>,
    <<670, 874, 320, 0, 8228>>,
    <<680, 468, 170, 0, 7828>>,
    <<690, 227, 82, 0, 6972>>,
    <<700, 114, 41, 0, 7161>> >>

cmfData ==
    [nm \in {cmfRows[i][1] : i \in 1..Len(cmfRows)} |->
        LET row == cmfRows[CHOOSE i \in 1..Len(cmfRows) : cmfRows[i][1] = nm]
        IN  [x |-> row[2], y |-> row[3], z |-> row[4], d65 |-> row[5]]]

\* lambda.findIndex(l => l >= target), 0 standing for the code's -1
FindIndex(lambda, target) ==
    LET S == {i \in 1..Len(lambda) : lambda[i] >= target}
    IN  IF S = {} THEN 0 ELSE CHOOSE i \in S : \A j \in S : i <= j

\* floor(v * n / d) for 0 <= n <= d, without a wide product
Proportion(v, n, d) == (v \div d) * n + ((v % d) * n) \div d

\* interpolate taking the upper bracketing point instead of interpolating
interpolateStep(lambda, values, target) ==
    IF Len(lambda) > 0 /\ target <= lambda[1] THEN values[1]
    ELSE IF Len(lambda) > 0 /\ target >= lambda[Len(lambda)] THEN values[Len(values)]
    ELSE LET idx == FindIndex(lambda, target)
         IN  IF idx = 0 THEN 0 ELSE values[idx]

\* interpolate(lambda, values, target); on empty arrays every comparison with
\* undefined is false and findIndex gives -1
interpolate(lambda, values, target) ==
    IF Len(lambda) > 0 /\ target <= lambda[1] THEN values[1]
    ELSE IF Len(lambda) > 0 /\ target >= lambda[Len(lambda)] THEN values[Len(values)]
    ELSE LET idx == FindIndex(lambda, target)
         IN  IF idx = 0 THEN 0
             ELSE LET x0 == lambda[idx - 1]
                      x1 == lambda[idx]
                      y0 == values[idx - 1]
                      y1 == values[idx]
                  IN  y0 + Proportion(y1 - y0, target - x0, x1 - x0)

\* the sampling loop with the percent test written as rVal >= 1
RECURSIVE SampleLoopGe(_, _, _)
SampleLoopGe(lambda, R, nm) ==
    IF nm <= 700
    THEN LET rVal == interpolate(lambda, R, nm)
             rFactor == IF rVal >= FP THEN rVal \div 100 ELSE rVal
         IN  <<[nm |-> nm, rVal |-> rVal, rFactor |-> rFactor]>>
                 \o SampleLoopGe(lambda, R, nm + 10)
    ELSE << >>

\* the loop of reflectanceToColor: the wavelengths it visits, with the value it
\* reads there (rVal) and the value it integrates (rFactor)
RECURSIVE SampleLoop(_, _, _)
SampleLoop(lambda, R, nm) ==
    IF nm <= 700
    THEN LET rVal == interpolate(lambda, R, nm)
             rFactor == IF rVal > FP THEN rVal \div 100 ELSE rVal
         IN  <<[nm |-> nm, rVal |-> rVal, rFactor |-> rFactor]>>
                 \o SampleLoop(lambda, R, nm + 10)
    ELSE << >>

Samples(lambda, R) == SampleLoop(lambda, R, 400)

\* floor(a * w / FP) for a weight w >= 0, split in thousands
MulFP(a, w) ==
    LET a1 == a \div 1000
        a0 == a % 1000
        w1 == w \div 1000
        w0 == w % 1000
    IN  a1 * w1 + ((a1 * w0 + a0 * w1 + ((a0 * w0) \div 1000)) \div 1000)

\* X += rFactor * d65 * x, ... N += d65 * y over the samples that have props;
\* the sums are in units of 10^-6
RECURSIVE Integrate(_, _)
Integrate(samples, i) ==
    IF i > Len(samples) THEN [X |-> 0, Y |-> 0, Z |-> 0, N |-> 0]
    ELSE LET rest == Integrate(samples, i + 1)
             sm == samples[i]
         IN  IF sm.nm \in DOMAIN cmfData
             THEN LET props == cmfData[sm.nm]
                  IN  [X |-> rest.X + MulFP(sm.rFactor, props.d65 * props.x),
                       Y |-> rest.Y + MulFP(sm.rFactor, props.d65 * props.y),
                       Z |-> rest.Z + MulFP(sm.rFactor, props.d65 * props.z),
                       N |-> rest.N + props.d65 * props.y]
             ELSE rest

MaxInt == 2 * (10 ^ 9)

\* floor(n / d) for wide naturals n, d with a quotient below MaxInt
FloorDiv(n, d) == Bisect("div", [n |-> n, d |-> d], 0, MaxInt)

\* (sum / N) * 100 in units of 1/FP
Normalize(sum, N) == FloorDiv(BigMul(Big(sum), Big(100 * FP)), Big(N))

\* tristimulus values that leave the curve out of the sums
xyzOfWhite(lambda, R) ==
    LET acc == Integrate(Samples(lambda, [i \in 1..Len(R) |-> FP]), 1)
    IN  [x |-> Normalize(acc.X, acc.N),
         y |-> Normalize(acc.Y, acc.N),
         z |-> Normalize(acc.Z, acc.N)]

xyzOf(lambda, R) ==
    LET acc == Integrate(Samples(lambda, R), 1)
    IN  [x |-> Normalize(acc.X, acc.N),
         y |-> Normalize(acc.Y, acc.N),
         z |-> Normalize(acc.Z, acc.N)]

\* f with its linear branch taken for every value
fLinear(t) ==
    FloorDiv(BigAdd(BigMul(Big(7787 * 29), BigMul(Big(t.num), Big(FP))),
                    BigMul(Big(4000), BigMul(Big(t.den), Big(FP)))),
             BigMul(Big(29000), Big(t.den)))

\* f(val) = val > 0.008856 ? val^(1/3) : 7.787 val + 16/116, for val = t.num / t.den
f(t) ==
    IF ~BigLeq(BigMul(Big(t.num), Big(FP)), BigMul(Big(8856), Big(t.den)))
    THEN Bisect("cbrt",
                [den |-> Big(t.den),
                 scaled |-> BigMul(Big(t.num), BigMul(BigSq(Big(FP)), Big(FP)))],
                0, 100 * FP)
    ELSE FloorDiv(BigAdd(BigMul(Big(7787 * 29), BigMul(Big(t.num), Big(FP))),
                         BigMul(Big(4000), BigMul(Big(t.den), Big(FP)))),
                  BigMul(Big(29000), Big(t.den)))

\* XYZ to Lab with refX = 95.047, refY = 100.000, refZ = 108.883
labOf(xyz) ==
    LET fx == f([num |-> xyz.x, den |-> 95047 * 1000])
        fy == f([num |-> xyz.y, den |-> 100 * FP])
        fz == f([num |-> xyz.z, den |-> 108883 * 1000])
    IN  [l |-> 116 * fy - 16 * FP, a |-> 500 * (fx - fy), b |-> 200 * (fy - fz)]

\* floor(v * c / 10^4) for a matrix coefficient c >= 0 given in units of 10^-4
Coef(v, c) == (v \div (10 ^ 4)) * c + ((v % (10 ^ 4)) * c) \div (10 ^ 4)

\* XYZ to linear sRGB
linearRgb(xyz) ==
    [r  |-> (Coef(xyz.x, 32406) - Coef(xyz.y, 15372) - Coef(xyz.z, 4986)) \div 100,
     g  |-> (Coef(xyz.y, 18758) + Coef(xyz.z, 415) - Coef(xyz.x, 9689)) \div 100,
     bl |-> (Coef(xyz.x, 557) + Coef(xyz.z, 10570) - Coef(xyz.y, 2040)) \div 100]

\* Math.round(Math.min(Math.max(gammaCorrect(c), 0), 1) * 255) with
\* gammaCorrect(c) = c <= 0.0031308 ? 12.92 c : 1.055 c^(1/2.4) - 0.055
channel(c) ==
    IF c <= 3130
    THEN IF c <= 0 THEN 0 ELSE (2 * 32946 * c + 10 * FP) \div (20 * FP)
    ELSE Bisect("gamma", BigMul(Pow5(Big(c)), GammaDen12), 0, 255)

HexDigit == <<"0", "1", "2", "3", "4", "5", "6", "7", "8", "9",
              "a", "b", "c", "d", "e", "f">>

RECURSIVE toString16(_)
toString16(n) ==
    IF n < 16 THEN <<HexDigit[n + 1]>>
    ELSE toString16(n \div 16) \o <<HexDigit[(n % 16) + 1]>>

RECURSIVE padStart(_, _, _)
padStart(str, len, fill) ==
    IF Len(str) >= len THEN str ELSE padStart(<<fill>> \o str, len, fill)

\* toHex without the padding
toHexNoPad(n) == toString16(n)

\* toHex(n) = Math.round(n).toString(16).padStart(2, '0'), a sequence of characters
toHex(n) == padStart(toString16(n), 2, "0")

rgbOf(xyz) ==
    LET lin == linearRgb(xyz)
    IN  <<"#">> \o toHex(channel(lin.r)) \o toHex(channel(lin.g)) \o toHex(channel(lin.bl))

reflectanceToColor(lambda, R) ==
    LET xyz == xyzOf(lambda, R)
    IN  [xyz |-> xyz, lab |-> labOf(xyz), rgb |-> rgbOf(xyz)]

(***************************************************************************)
(* Calls of the colour utilities.  `call` is the call that has just        *)
(* returned: its operation, its arguments and what it returned.            *)
(***************************************************************************)
VARIABLES call

(***************************************************************************)
(* PredictionPanel state, and db, the spectra kept in local storage.       *)
(***************************************************************************)
VARIABLES db, historyList, listLoad, selectedHistory, baseData, loading, params, itemLoads

(***************************************************************************)
(* ConcentrationPanel state: panel tells the two versions of the component *)
(* apart, analysisLoading is its `loading`, run is the handleAnalyze call  *)
(* in flight with the request it awaits.                                   *)
(***************************************************************************)
VARIABLES panel, selectedSample, selectedStandards, analysisMethod, calibrationJson,
          lambdaPointsInput, areaIntervalsInput, divisorStandard, divisorComponent,
          ratioRows, result, error, analysisLoading, run

(***************************************************************************)
(* The analyzeConcentration calls of services/api.ts: one record per       *)
(* caller, with the call's arguments and what it returned or threw.        *)
(***************************************************************************)
VARIABLES nnlsCalls

(***************************************************************************)
(* The local user store of services/api.ts: users and session are the two  *)
(* localStorage entries, now is the clock, userOut the outcome of the last *)
(* call of the user service.                                               *)
(***************************************************************************)
VARIABLES users, session, now, userOut

(***************************************************************************)
(* App: the logged-in user, the active module, and the session timeout     *)
(* monitor of the effect on currentUser: throttleTimeout and checkInterval *)
(* hold the time at which the timer is due (Null: no timer), recorded the  *)
(* times of the handleActivity calls of the running effect.                *)
(***************************************************************************)
VARIABLES currentUser, activeModule, throttleTimeout, checkInterval, recorded

(***************************************************************************)
(* App, the preprocessing module: subTab, data, loading, error and         *)
(* historyList of App (appData, appLoading, appError, appHistory), the     *)
(* requests of handleProcess and handleLoadHistoryItem that have not       *)
(* settled, and the save form of ControlPanel.                             *)
(***************************************************************************)
VARIABLES subTab, appData, appLoading, appError, appHistory, appRequests, saveForm

(***************************************************************************)
(* ConcentrationPanel: the history list the two tabs are built from        *)
(***************************************************************************)
VARIABLES history

colorVars == <<call>>
predVars == <<db, historyList, listLoad, selectedHistory, baseData, loading, params, itemLoads>>
formVars == <<selectedSample, selectedStandards, analysisMethod, calibrationJson,
              lambdaPointsInput, areaIntervalsInput, divisorStandard, divisorComponent,
              ratioRows>>
concVars == <<panel, formVars, result, error, analysisLoading, run>>
nnlsVars == <<nnlsCalls>>
userVars == <<users, session, now, userOut>>
monitorVars == <<currentUser, activeModule, throttleTimeout, checkInterval, recorded>>
processVars == <<subTab, appData, appLoading, appError, appHistory, appRequests, saveForm>>
appVars == <<monitorVars, processVars>>
libraryVars == <<history>>
restVars == <<nnlsVars, userVars, appVars, libraryVars>>
vars == <<colorVars, predVars, concVars, restVars>>

NumRSteps == 100
RStep == 10 ^ 4

\* reflectances handed to RtoKS: 0.00, 0.01, ..., and some beyond both clamps
RInputs ==
    {k * RStep : k \in 0..NumRSteps} \cup {0 - RStep, 500, 1000, 999000, 999500, 2 * FP}

InterpGrids == {<< >>, <<500>>, <<450, 520, 650>>}
InterpValues == {0, 300000, 900000}
InterpCurves ==
    UNION {{[lambda |-> g, values |-> v] : v \in [1..Len(g) -> InterpValues]} : g \in InterpGrids}
Targets == {400 + 10 * k : k \in 0..30} \cup {455, 515, 525, 645}

ColorGrid == <<450, 650>>
ColorValues == {0, 400000, FP, 40 * FP}
\* the flat curve R = 0.5 at 400, 410, ..., 700
FlatGrid == [i \in 1..31 |-> 390 + 10 * i]
FlatCurve == [i \in 1..31 |-> FP \div 2]
\* the curves handed to reflectanceToColor: two points, none at all, or the
\* flat curve
ColorCurves ==
    {[lambda |-> ColorGrid, R |-> v] : v \in [1..Len(ColorGrid) -> ColorValues]}
        \cup {[lambda |-> << >>, R |-> << >>], [lambda |-> FlatGrid, R |-> FlatCurve]}
Factors == {<<3, 2>>, <<2, 1>>}

\* every value of the curve multiplied by k[1] / k[2]
ScaleCurve(R, k) == [i \in 1..Len(R) |-> (R[i] * k[1]) \div k[2]]

Idle == [op |-> "idle"]

CallRtoKS ==
    /\ call = Idle
    /\ \E R \in RInputs : call' = [op |-> "RtoKS", R |-> R, out |-> RtoKS(R)]
    /\ UNCHANGED <<predVars, concVars, restVars>>

\* KStoR applied to the K/S that RtoKS has just returned
CallKStoR ==
    /\ call.op = "RtoKS"
    /\ call' = [op |-> "KStoR", R |-> call.R, KS |-> call.out, out |-> KStoR(call.out)]
    /\ UNCHANGED <<predVars, concVars, restVars>>

\* interpolate returns a number on each of its paths and throws on none
CallInterpolate ==
    /\ call = Idle
    /\ \E c \in InterpCurves, target \in Targets :
          call' = [op |-> "interpolate", lambda |-> c.lambda, values |-> c.values,
                   target |-> target, thrown |-> FALSE,
                   out |-> interpolate(c.lambda, c.values, target)]
    /\ UNCHANGED <<predVars, concVars, restVars>>

CallReflectanceToColor ==
    /\ call = Idle
    /\ \E c \in ColorCurves :
          call' = [op |-> "reflectanceToColor", lambda |-> c.lambda, R |-> c.R,
                   samples |-> Samples(c.lambda, c.R),
                   out |-> reflectanceToColor(c.lambda, c.R)]
    /\ UNCHANGED <<predVars, concVars, restVars>>

\* reflectanceToColor applied again to the same curve scaled up
CallScaled ==
    /\ call.op = "reflectanceToColor"
    /\ \E k \in Factors :
          call' = [op |-> "scaled", lambda |-> call.lambda, R |-> call.R, factor |-> k,
                   base |-> call.out,
                   samples |-> Samples(call.lambda, ScaleCurve(call.R, k)),
                   out |-> reflectanceToColor(call.lambda, ScaleCurve(call.R, k))]
    /\ UNCHANGED <<predVars, concVars, restVars>>

Return ==
    /\ call # Idle
    /\ call' = Idle
    /\ UNCHANGED <<predVars, concVars, restVars>>

(***************************************************************************)
(* PredictionPanel                                                         *)
(***************************************************************************)
Files == <<"std_red.spc", "prod_mix_purple.spc", "prod_mix_green.spc">>
ProdFiles == {"prod_mix_purple.spc", "prod_mix_green.spc"}

\* wavelengths of a stored spectrum, and the transmittance curves a stored
\* spectrum may hold (1/FP units)
RecordGrid == <<400, 550, 700>>
Spectra == {<<250000, 600000, 999000>>, <<500, 437000, FP>>}

Missing == [save_type |-> "missing"]
Record(saveType, T) == [save_type |-> saveType, lambda |-> RecordGrid, T |-> T]

Null == [tag |-> "null"]

ExhaustionRates == {10, 70, 100}
LiquorRatios == {3, 10, 50}
FabricTypes == {"Cotton", "Wool"}
Weights == {100, 50}
MaxLoads == 2

InitParams ==
    [fabricType |-> "Cotton", weight |-> 100, liquorRatio |-> 10, exhaustionRate |-> 70]

\* the depth factor with the baselines swapped into the wrong places
depthFactorInverted(p) ==
    LET ratio == IF p.liquorRatio = 0 THEN 1 ELSE p.liquorRatio
    IN  RatMul(Rat(70, p.exhaustionRate), Rat(ratio, 10))

\* the depth factor against a baseline exhaustion of 100
depthFactorFull(p) ==
    LET ratio == IF p.liquorRatio = 0 THEN 1 ELSE p.liquorRatio
    IN  RatMul(Rat(p.exhaustionRate, 100), Rat(10, ratio))

\* the depth factor scaled by the fabric weight
depthFactorWeighted(p) ==
    LET ratio == IF p.liquorRatio = 0 THEN 1 ELSE p.liquorRatio
    IN  RatMul(RatMul(Rat(p.exhaustionRate, 70), Rat(10, ratio)), Rat(p.weight, 100))

\* depthFactor = (exhaustionRate / 70) * (10 / (liquorRatio || 1))
depthFactor(p) ==
    LET ratio == IF p.liquorRatio = 0 THEN 1 ELSE p.liquorRatio
    IN  RatMul(Rat(p.exhaustionRate, 70), Rat(10, ratio))

\* every value params can take
ParamsChoices ==
    [fabricType : FabricTypes, weight : Weights, liquorRatio : LiquorRatios,
     exhaustionRate : ExhaustionRates]

\* the loop of the prediction memo: ksCurve and newR
predictionCurves(lambda, fitted, p) ==
    LET df == depthFactor(p)
        clamp(R) == IF R <= RMin THEN RMin ELSE IF R >= RMax THEN RMax ELSE R
        ksCurve == Table([i \in 1..Len(lambda) |-> RatMul(RtoKS(clamp(fitted[i])), df)])
        newR == Table([i \in 1..Len(lambda) |-> KStoR(ksCurve[i])])
    IN  [rCurve |-> newR, ksCurve |-> ksCurve, depthFactor |-> df]

\* reflectanceToColor(lambda, newR), computed once for each curve newR that
\* the stored spectra and the parameters give
colorTable ==
    Table([R \in {predictionCurves(RecordGrid, k[1], k[2]).rCurve :
                      k \in Spectra \X ParamsChoices} |->
              reflectanceToColor(RecordGrid, R)])

\* the body of the prediction memo for a loaded curve
computePrediction(lambda, fitted, p) ==
    LET curves == predictionCurves(lambda, fitted, p)
    IN  [rCurve |-> curves.rCurve, ksCurve |-> curves.ksCurve,
         color |-> IF lambda = RecordGrid THEN colorTable[curves.rCurve]
                   ELSE reflectanceToColor(lambda, curves.rCurve),
         depthFactor |-> curves.depthFactor]

\* useMemo(..., [baseData, params]): one computation per curve and parameters
predictionMemo ==
    Table([k \in Spectra \X ParamsChoices |-> computePrediction(RecordGrid, k[1], k[2])])

prediction ==
    IF baseData = Null THEN Null
    ELSE predictionMemo[<<baseData.chart_data.fitted, params>>]

\* fetchHistoryList().filter(save_type === 'multicomponent'), in stored order
RECURSIVE Multicomponent(_)
Multicomponent(i) ==
    IF i > Len(Files) THEN << >>
    ELSE (IF db[Files[i]].save_type = "multicomponent" THEN <<Files[i]>> ELSE << >>)
             \o Multicomponent(i + 1)

LoadHistory ==
    /\ listLoad
    /\ listLoad' = FALSE
    /\ historyList' = Multicomponent(1)
    /\ UNCHANGED <<db, selectedHistory, baseData, loading, params, itemLoads>>
    /\ UNCHANGED <<colorVars, concVars, restVars>>

\* handleSelectHistory up to its await
HandleSelectHistory ==
    \E filename \in {""} \cup {historyList[i] : i \in 1..Len(historyList)} :
        /\ selectedHistory' = filename
        /\ IF filename = ""
           THEN /\ baseData' = Null
                /\ UNCHANGED <<loading, itemLoads>>
           ELSE /\ Len(itemLoads) < MaxLoads
                /\ loading' = TRUE
                /\ itemLoads' = Append(itemLoads, filename)
                /\ UNCHANGED baseData
        /\ UNCHANGED <<db, historyList, listLoad, params>>
        /\ UNCHANGED <<colorVars, concVars, restVars>>

\* fetchHistoryItem resolves: the rest of handleSelectHistory
FetchResolve ==
    /\ itemLoads # << >>
    /\ db[Head(itemLoads)] # Missing
    /\ LET data == db[Head(itemLoads)]
       IN  baseData' = [tag |-> "result",
                        chart_data |-> [lambda |-> data.lambda, original |-> data.T,
                                        fitted |-> data.T]]
    /\ loading' = FALSE
    /\ itemLoads' = Tail(itemLoads)
    /\ UNCHANGED <<db, historyList, listLoad, selectedHistory, params>>
    /\ UNCHANGED <<colorVars, concVars, restVars>>

\* fetchHistoryItem throws: catch and finally of handleSelectHistory
FetchReject ==
    /\ itemLoads # << >>
    /\ db[Head(itemLoads)] = Missing
    /\ loading' = FALSE
    /\ itemLoads' = Tail(itemLoads)
    /\ UNCHANGED <<db, historyList, listLoad, selectedHistory, baseData, params>>
    /\ UNCHANGED <<colorVars, concVars, restVars>>

SetExhaustionRate ==
    /\ \E v \in ExhaustionRates : params' = [params EXCEPT !.exhaustionRate = v]
    /\ UNCHANGED <<db, historyList, listLoad, selectedHistory, baseData, loading, itemLoads>>
    /\ UNCHANGED <<colorVars, concVars, restVars>>

SetLiquorRatio ==
    /\ \E v \in LiquorRatios : params' = [params EXCEPT !.liquorRatio = v]
    /\ UNCHANGED <<db, historyList, listLoad, selectedHistory, baseData, loading, itemLoads>>
    /\ UNCHANGED <<colorVars, concVars, restVars>>

SetFabricType ==
    /\ \E v \in FabricTypes : params' = [params EXCEPT !.fabricType = v]
    /\ UNCHANGED <<db, historyList, listLoad, selectedHistory, baseData, loading, itemLoads>>
    /\ UNCHANGED <<colorVars, concVars, restVars>>

SetWeight ==
    /\ \E v \in Weights : params' = [params EXCEPT !.weight = v]
    /\ UNCHANGED <<db, historyList, listLoad, selectedHistory, baseData, loading, itemLoads>>
    /\ UNCHANGED <<colorVars, concVars, restVars>>

\* deleteHistoryItem, from another window on the same storage
DeleteItem ==
    /\ \E fn \in ProdFiles : db[fn] # Missing /\ db' = [db EXCEPT ![fn] = Missing]
    /\ UNCHANGED <<historyList, listLoad, selectedHistory, baseData, loading, params, itemLoads>>
    /\ UNCHANGED <<colorVars, concVars, restVars>>

\* the mock data: one standard and two production mixes
InitDb ==
    \E T1 \in Spectra, T2 \in Spectra :
        db = [fn \in {Files[i] : i \in 1..Len(Files)} |->
                 IF fn = "std_red.spc" THEN Record("standard", <<300000, 200000, 900000>>)
                 ELSE IF fn = "prod_mix_purple.spc" THEN Record("multicomponent", T1)
                 ELSE Record("multicomponent", T2)]

InitPanel ==
    /\ historyList = << >>
    /\ listLoad = TRUE
    /\ selectedHistory = ""
    /\ baseData = Null
    /\ loading = FALSE
    /\ params = InitParams
    /\ itemLoads = << >>

(***************************************************************************)
(* The user service: initMockData, loginUser, addUser, deleteUser          *)
(***************************************************************************)
MaxNow == 2
Usernames == {"admin", "alice"}
Passwords == {"spectral123", "pw"}
Roles == {"admin", "user"}

\* new Date().toLocaleString('zh-CN') at clock value t
toLocaleString(t) == "t" \o ToString(t)

UserRecord(username, role, lastLogin, password) ==
    [username |-> username, role |-> role, lastLogin |-> lastLogin, password |-> password]

\* users.findIndex(u => u.username === username), 0 when there is none
findUser(list, username) ==
    IF \E i \in 1..Len(list) : list[i].username = username
    THEN CHOOSE i \in 1..Len(list) :
             /\ list[i].username = username
             /\ \A j \in 1..(i - 1) : list[j].username # username
    ELSE 0

\* the user part of initMockData on the stored list
initMockData(list) ==
    IF findUser(list, "admin") = 0
    THEN Append(list, UserRecord("admin", "admin", "", "spectral123"))
    ELSE [list EXCEPT ![findUser(list, "admin")].password = "spectral123"]

\* what the store may hold when the module is loaded: nothing, or a list the
\* service wrote earlier, the administrator's password perhaps an older one
StoredUsers ==
    {<< >>,
     <<UserRecord("admin", "admin", "t0", "old")>>,
     <<UserRecord("admin", "admin", "", "spectral123"),
       UserRecord("alice", "user", "never", "pw")>>}

NoOutcome == [op |-> "none"]

UserUnchanged == UNCHANGED <<colorVars, predVars, concVars, nnlsVars, appVars, libraryVars>>

\* the page is loaded again: initMockData runs on what is stored
Reload ==
    /\ users' = initMockData(users)
    /\ userOut' = NoOutcome
    /\ UNCHANGED <<session, now>>
    /\ UserUnchanged

Tick ==
    /\ now < MaxNow
    /\ now' = now + 1
    /\ UNCHANGED <<users, session, userOut>>
    /\ UserUnchanged

\* the session of loginUser with the password left in
sessionKeep(updated, t) ==
    [k \in DOMAIN updated \cup {"lastActivity"} |->
        IF k = "lastActivity" THEN t ELSE updated[k]]

\* const session = { ...updated, _lastActivity: Date.now() }; delete session.password
sessionOf(updated, t) ==
    LET spread == [k \in DOMAIN updated \cup {"lastActivity"} |->
                      IF k = "lastActivity" THEN t ELSE updated[k]]
    IN  [k \in DOMAIN spread \ {"password"} |-> spread[k]]

\* loginUser after its delay
loginUser(username, password) ==
    /\ IF \E i \in 1..Len(users) :
              users[i].username = username /\ users[i].password = password
       THEN LET user == users[CHOOSE i \in 1..Len(users) :
                                   /\ users[i].username = username
                                   /\ users[i].password = password
                                   /\ \A j \in 1..(i - 1) :
                                         ~(users[j].username = username
                                             /\ users[j].password = password)]
                updated == [user EXCEPT !.lastLogin = toLocaleString(now)]
            IN  /\ users' = [i \in 1..Len(users) |->
                                IF users[i].username = username THEN updated ELSE users[i]]
                /\ session' = sessionOf(updated, now)
                /\ userOut' = [op |-> "loginUser", username |-> username, thrown |-> FALSE]
       ELSE /\ userOut' = [op |-> "loginUser", username |-> username, thrown |-> TRUE]
            /\ UNCHANGED <<users, session>>
    /\ UNCHANGED now

LoginUser ==
    /\ \E username \in Usernames, password \in Passwords : loginUser(username, password)
    /\ UserUnchanged

(***************************************************************************)
(* The session: logoutUser, getSessionUser, updateSessionActivity.  The    *)
(* clock counts minutes.                                                   *)
(***************************************************************************)
SESSION_TIMEOUT == 30
MaxTime == 33
\* the time between two calls: a half of the timeout, or a minute more
Delays == {SESSION_TIMEOUT \div 2, SESSION_TIMEOUT \div 2 + 1}

\* getSessionUser without the expiry check
getSessionUserForever(s, t) == [value |-> s, stored |-> s]

\* getSessionUser on the stored session s at time t: the value returned and
\* what is stored afterwards (logoutUser removes an expired session)
getSessionUser(s, t) ==
    IF s = Null
    THEN [value |-> Null, stored |-> s]
    ELSE IF s.lastActivity # 0 /\ t - s.lastActivity > SESSION_TIMEOUT
         THEN [value |-> Null, stored |-> Null]
         ELSE [value |-> s, stored |-> s]

\* updateSessionActivity on the stored session s at time t
updateSessionActivity(s, t) ==
    IF s # Null THEN [s EXCEPT !.lastActivity = t] ELSE s

LogoutUser ==
    /\ session' = Null
    /\ userOut' = [op |-> "logoutUser"]
    /\ UNCHANGED <<users, now>>
    /\ UserUnchanged

GetSessionUser ==
    /\ session' = getSessionUser(session, now).stored
    /\ userOut' = [op |-> "getSessionUser", value |-> getSessionUser(session, now).value]
    /\ UNCHANGED <<users, now>>
    /\ UserUnchanged

UpdateSessionActivity ==
    /\ session' = updateSessionActivity(session, now)
    /\ userOut' = [op |-> "updateSessionActivity"]
    /\ UNCHANGED <<users, now>>
    /\ UserUnchanged

\* time passes between two calls
Elapse ==
    /\ \E d \in Delays :
          /\ now + d <= MaxTime
          /\ now' = now + d
    /\ UNCHANGED <<users, session, userOut>>
    /\ UserUnchanged

\* addUser after its delay
addUser(user) ==
    /\ IF findUser(users, user.username) # 0
       THEN /\ userOut' = [op |-> "addUser", username |-> user.username, thrown |-> TRUE]
            /\ UNCHANGED users
       ELSE /\ users' = Append(users, UserRecord(user.username, user.role, "never",
                                                 user.password))
            /\ userOut' = [op |-> "addUser", username |-> user.username, thrown |-> FALSE]
    /\ UNCHANGED <<session, now>>
    /\ UserUnchanged

AddUser ==
    \E user \in [username : Usernames, password : Passwords, role : Roles] : addUser(user)

\* deleteUser that removes whichever user is named
deleteUserAny(username) ==
    /\ LET other(u) == u.username # username IN users' = SelectSeq(users, other)
    /\ userOut' = [op |-> "deleteUser", username |-> username, thrown |-> FALSE]
    /\ UNCHANGED <<session, now>>
    /\ UserUnchanged

\* deleteUser after its delay
deleteUser(username) ==
    /\ IF username = "admin"
       THEN /\ userOut' = [op |-> "deleteUser", username |-> username, thrown |-> TRUE]
            /\ UNCHANGED users
       ELSE /\ LET other(u) == u.username # username IN users' = SelectSeq(users, other)
            /\ userOut' = [op |-> "deleteUser", username |-> username, thrown |-> FALSE]
    /\ UNCHANGED <<session, now>>
    /\ UserUnchanged

DeleteUser == \E username \in Usernames : deleteUser(username)

\* the store of a first visit, after initMockData
InitUsers ==
    /\ users = initMockData(<< >>)
    /\ session = Null
    /\ now = 1
    /\ userOut = NoOutcome

\* App before anybody has logged in
InitMonitor ==
    /\ currentUser = Null
    /\ activeModule = "preprocessing"
    /\ throttleTimeout = Null
    /\ checkInterval = Null
    /\ recorded = << >>

InitSaveForm ==
    [saveName |-> "", saveType |-> "standard", concentration |-> "", dyeCode |-> ""]

\* the preprocessing module and ControlPanel as they are first rendered
InitProcess ==
    /\ subTab = "process"
    /\ appData = Null
    /\ appLoading = FALSE
    /\ appError = Null
    /\ appHistory = {}
    /\ appRequests = << >>
    /\ saveForm = InitSaveForm

InitApp == InitMonitor /\ InitProcess /\ history = {}

(***************************************************************************)
(* App: login, logout, the menu and the session timeout monitor            *)
(***************************************************************************)
Modules == {"preprocessing", "concentration", "prediction", "users"}
MaxMinutes == 4

\* the ids of the sidebar menu for the logged-in user
menuItems(user) ==
    {"preprocessing", "concentration", "prediction"}
        \cup (IF user.role = "admin" THEN {"users"} ELSE {})

\* what App renders: the login panel, or the panel of the active module
Shown ==
    IF currentUser = Null THEN "LoginPanel"
    ELSE IF activeModule = "users"
         THEN IF currentUser.role = "admin" THEN "UserManagementPanel" ELSE "nothing"
         ELSE activeModule

AppUnchanged == UNCHANGED <<colorVars, predVars, concVars, nnlsVars, processVars, libraryVars>>

\* the monitor effect runs for a new currentUser: listeners and interval
StartMonitor ==
    /\ throttleTimeout' = Null
    /\ checkInterval' = [due |-> now + 1]
    /\ recorded' = << >>

\* the cleanup of the monitor effect
StopMonitor ==
    /\ throttleTimeout' = Null
    /\ checkInterval' = Null
    /\ recorded' = << >>

\* the page is loaded: initMockData, fresh App state, the mount effect
Mount ==
    /\ users' = initMockData(users)
    /\ userOut' = NoOutcome
    /\ session' = getSessionUser(session, now).stored
    /\ currentUser' = getSessionUser(session, now).value
    /\ activeModule' = "preprocessing"
    /\ IF getSessionUser(session, now).value # Null THEN StartMonitor ELSE StopMonitor
    /\ UNCHANGED now
    /\ AppUnchanged

\* LoginPanel.handleSubmit, with onLoginSuccess = setCurrentUser
LoginSubmit ==
    /\ currentUser = Null
    /\ \E username \in Usernames, password \in Passwords : loginUser(username, password)
    /\ IF userOut'.thrown
       THEN UNCHANGED monitorVars
       ELSE /\ currentUser' = session'
            /\ StartMonitor
            /\ UNCHANGED activeModule
    /\ AppUnchanged

\* handleLogout that leaves the active module as it is
handleLogoutStay ==
    /\ currentUser # Null
    /\ session' = Null
    /\ userOut' = [op |-> "logoutUser"]
    /\ currentUser' = Null
    /\ StopMonitor
    /\ UNCHANGED <<users, now, activeModule>>
    /\ AppUnchanged

handleLogout ==
    /\ currentUser # Null
    /\ session' = Null
    /\ userOut' = [op |-> "logoutUser"]
    /\ currentUser' = Null
    /\ activeModule' = "preprocessing"
    /\ StopMonitor
    /\ UNCHANGED <<users, now>>
    /\ AppUnchanged

\* a click on an item of the sidebar menu
SetActiveModule ==
    /\ currentUser # Null
    /\ \E item \in menuItems(currentUser) : activeModule' = item
    /\ UNCHANGED <<userVars, currentUser, throttleTimeout, checkInterval, recorded>>
    /\ AppUnchanged

\* throttledHandler that calls handleActivity on every event
throttledHandlerAlways ==
    /\ currentUser # Null
    /\ session' = updateSessionActivity(session, now)
    /\ recorded' = Append(recorded, now)
    /\ throttleTimeout' = [due |-> now + 1]
    /\ UNCHANGED <<users, now, userOut, currentUser, activeModule, checkInterval>>
    /\ AppUnchanged

\* a mousemove, keydown, click or scroll event while the listeners are attached
throttledHandler ==
    /\ currentUser # Null
    /\ IF throttleTimeout = Null
       THEN /\ session' = updateSessionActivity(session, now)
            /\ recorded' = Append(recorded, now)
            /\ throttleTimeout' = [due |-> now + 1]
       ELSE UNCHANGED <<session, recorded, throttleTimeout>>
    /\ UNCHANGED <<users, now, userOut, currentUser, activeModule, checkInterval>>
    /\ AppUnchanged

\* the callback of the throttle timer
ThrottleFire ==
    /\ throttleTimeout # Null
    /\ throttleTimeout.due <= now
    /\ throttleTimeout' = Null
    /\ UNCHANGED <<userVars, currentUser, activeModule, checkInterval, recorded>>
    /\ AppUnchanged

\* the callback of checkInterval
CheckIntervalFire ==
    /\ checkInterval # Null
    /\ checkInterval.due <= now
    /\ session' = getSessionUser(session, now).stored
    /\ IF getSessionUser(session, now).value = Null
       THEN /\ currentUser' = Null
            /\ activeModule' = "preprocessing"
            /\ StopMonitor
       ELSE /\ checkInterval' = [due |-> now + 1]
            /\ UNCHANGED <<currentUser, activeModule, throttleTimeout, recorded>>
    /\ UNCHANGED <<users, now, userOut>>
    /\ AppUnchanged

\* a minute passes; a timer that is due runs first
Advance ==
    /\ now < MaxMinutes
    /\ throttleTimeout # Null => throttleTimeout.due > now
    /\ checkInterval # Null => checkInterval.due > now
    /\ now' = now + 1
    /\ UNCHANGED <<users, session, userOut, monitorVars>>
    /\ AppUnchanged

(***************************************************************************)
(* App, the preprocessing module: handleProcess, handleLoadHistoryItem,    *)
(* handleSave, and the save form of ControlPanel.  A record is modelled    *)
(* flat, the fields of meta beside lambda and T.                           *)
(***************************************************************************)
MaxRequests == 2
SampleNames == {"Red"}
SaveForm(saveName, saveType, concentration, dyeCode) ==
    [saveName |-> saveName, saveType |-> saveType, concentration |-> concentration,
     dyeCode |-> dyeCode]
SaveForms ==
    {SaveForm("dyeA", "standard", "", ""), SaveForm("dyeA", "standard", "0.5", ""),
     SaveForm("dyeA", "standard", "0.5", "R-19"), SaveForm("dyeA", "multicomponent", "", "")}

ProcessFrame == UNCHANGED <<colorVars, concVars, nnlsVars, userVars, monitorVars, libraryVars>>
PanelUnchanged ==
    UNCHANGED <<historyList, listLoad, selectedHistory, baseData, loading, params, itemLoads>>

\* the preprocessing module is on the screen
Preprocessing == currentUser # Null /\ activeModule = "preprocessing"

\* the filenames fetchHistoryList returns
StoredKeys == {k \in DOMAIN db : db[k] # Missing}

Remove(seq, i) == [j \in 1..(Len(seq) - 1) |-> IF j < i THEN seq[j] ELSE seq[j + 1]]

\* a click on a sub-tab; on 'history' ControlPanel is unmounted and the
\* effect on subTab runs loadHistory
SetSubTab ==
    /\ Preprocessing
    /\ \E tab \in {"process", "history"} :
          /\ tab # subTab
          /\ subTab' = tab
          /\ IF tab = "history"
             THEN appHistory' = StoredKeys /\ saveForm' = InitSaveForm
             ELSE UNCHANGED <<appHistory, saveForm>>
    /\ UNCHANGED <<appData, appLoading, appError, appRequests>>
    /\ UNCHANGED predVars
    /\ ProcessFrame

\* handleProcess up to its await; the button is disabled while loading
handleProcess ==
    /\ Preprocessing
    /\ subTab = "process"
    /\ ~appLoading
    /\ Len(appRequests) < MaxRequests
    /\ \E sample \in SampleNames :
          appRequests' = Append(appRequests, [handler |-> "handleProcess", arg |-> sample])
    /\ appLoading' = TRUE
    /\ appError' = Null
    /\ UNCHANGED <<subTab, appData, appHistory, saveForm>>
    /\ UNCHANGED predVars
    /\ ProcessFrame

\* handleLoadHistoryItem up to its await
handleLoadHistoryItem ==
    /\ Preprocessing
    /\ subTab = "history"
    /\ Len(appRequests) < MaxRequests
    /\ \E filename \in appHistory :
          appRequests' = Append(appRequests,
                                [handler |-> "handleLoadHistoryItem", arg |-> filename])
    /\ appLoading' = TRUE
    /\ UNCHANGED <<subTab, appData, appError, appHistory, saveForm>>
    /\ UNCHANGED predVars
    /\ ProcessFrame

\* the result of processSpectra for a sample file named after a colour
processSpectra(sample) ==
    [name |-> sample, timestamp |-> toLocaleString(now), lambda |-> RecordGrid,
     T |-> <<250000, 600000, 999000>>]

\* processSpectra resolves: the rest of handleProcess
ProcessResolve ==
    /\ \E i \in 1..Len(appRequests) :
          /\ appRequests[i].handler = "handleProcess"
          /\ appData' = processSpectra(appRequests[i].arg)
          /\ appRequests' = Remove(appRequests, i)
    /\ appLoading' = FALSE
    /\ UNCHANGED <<subTab, appError, appHistory, saveForm>>
    /\ UNCHANGED predVars
    /\ ProcessFrame

\* processSpectra throws: catch and finally of handleProcess
ProcessReject ==
    /\ \E i \in 1..Len(appRequests) :
          /\ appRequests[i].handler = "handleProcess"
          /\ appRequests' = Remove(appRequests, i)
    /\ appError' = [message |-> "process failed"]
    /\ appLoading' = FALSE
    /\ UNCHANGED <<subTab, appData, appHistory, saveForm>>
    /\ UNCHANGED predVars
    /\ ProcessFrame

\* fetchHistoryItem resolves: the rest of handleLoadHistoryItem
LoadItemResolve ==
    /\ \E i \in 1..Len(appRequests) :
          /\ appRequests[i].handler = "handleLoadHistoryItem"
          /\ appRequests[i].arg \in StoredKeys
          /\ appData' = db[appRequests[i].arg]
          /\ appRequests' = Remove(appRequests, i)
    /\ subTab' = "process"
    /\ saveForm' = IF subTab = "history" THEN InitSaveForm ELSE saveForm
    /\ appLoading' = FALSE
    /\ UNCHANGED <<appError, appHistory>>
    /\ UNCHANGED predVars
    /\ ProcessFrame

\* fetchHistoryItem throws: catch and finally of handleLoadHistoryItem
LoadItemReject ==
    /\ \E i \in 1..Len(appRequests) :
          /\ appRequests[i].handler = "handleLoadHistoryItem"
          /\ appRequests[i].arg \notin StoredKeys
          /\ appRequests' = Remove(appRequests, i)
    /\ appError' = [message |-> "load failed"]
    /\ appLoading' = FALSE
    /\ UNCHANGED <<subTab, appData, appHistory, saveForm>>
    /\ UNCHANGED predVars
    /\ ProcessFrame

\* the fields of the save form are edited
SetSaveForm ==
    /\ Preprocessing
    /\ subTab = "process"
    /\ appData # Null
    /\ \E form \in SaveForms : saveForm' = form
    /\ UNCHANGED <<subTab, appData, appLoading, appError, appHistory, appRequests>>
    /\ UNCHANGED predVars
    /\ ProcessFrame

\* the record saveHistory stores: { ...data, meta: { ...data.meta, name,
\* save_type, concentration } }
saveHistory(name, d, saveType, concentration) ==
    [k \in DOMAIN d \cup {"name", "save_type", "concentration"} |->
        IF k = "name" THEN name
        ELSE IF k = "save_type" THEN saveType
        ELSE IF k = "concentration" THEN concentration
        ELSE d[k]]

\* the key saveHistory stores under: `${name}_${Date.now()}.spc`
saveKey(name) == name \o "_" \o ToString(now) \o ".spc"

\* handleSave, with the loadHistory that follows the save
handleSave(name, type, concentration) ==
    /\ appData # Null
    /\ db' = [k \in DOMAIN db \cup {saveKey(name)} |->
                 IF k = saveKey(name)
                 THEN saveHistory(name, appData, type, concentration)
                 ELSE db[k]]
    /\ appHistory' = StoredKeys \cup {saveKey(name)}
    /\ UNCHANGED <<subTab, appData, appLoading, appError, appRequests, saveForm>>
    /\ PanelUnchanged
    /\ ProcessFrame

\* the save button of ControlPanel: onSave(saveName, saveType, concentration,
\* dyeCode), where onSave is handleSave and takes three arguments
SaveClick ==
    /\ Preprocessing
    /\ subTab = "process"
    /\ saveForm.saveName # ""
    /\ saveForm.saveType = "standard" => saveForm.concentration # ""
    /\ handleSave(saveForm.saveName, saveForm.saveType, saveForm.concentration)

(***************************************************************************)
(* analyzeConcentration, the local stand-in of the NNLS resolver           *)
(***************************************************************************)
MaxCalls == 2
Callers == 1..MaxCalls

NnlsSamples == {"prod_mix_purple.spc", "prod_mix_green.spc", "lost.spc"}
NnlsStandardLists ==
    {<< >>, <<"std_red.spc">>, <<"std_red.spc", "std_blue.spc">>,
     <<"std_blue.spc", "std_red.spc">>}

\* the values successive Math.random() calls of one analyzeConcentration call
\* return, in units of 1/FP
RandomDraws ==
    {<<0, 0, 0, 0, 0, 0, 0>>,
     <<999999, 500000, 250000, 999999, 0, 500000, 999999>>,
     <<500000, 500000, 500000, 500000, 500000, 500000, 500000>>}

\* meta.name of the records of the mock data
metaName(fname) ==
    CASE fname = "std_red.spc" -> "standard_reactive_red_B-3BF"
      [] fname = "prod_mix_purple.spc" -> "production_purple_P20231001"
      [] fname = "prod_mix_green.spc" -> "production_green_G20231005"
      [] OTHER -> ""

\* data.A of a record: T = 10^(-A), in units of 1/FP
absorbance(T) ==
    [i \in 1..Len(T) |->
        CASE T[i] = 250000 -> 602060
          [] T[i] = 600000 -> 221849
          [] T[i] = 999000 -> 435
          [] T[i] = 500 -> 3301030
          [] T[i] = 437000 -> 359519
          [] T[i] = 300000 -> 522879
          [] T[i] = 200000 -> 698970
          [] T[i] = 900000 -> 45757
          [] OTHER -> 0]

\* db[fname], Null when the record is not stored
stored(fname) ==
    IF fname \in DOMAIN db /\ db[fname] # Missing THEN db[fname] ELSE Null

RECURSIVE SumConcentration(_, _)
SumConcentration(components, i) ==
    IF i > Len(components) THEN 0
    ELSE components[i].concentration + SumConcentration(components, i + 1)

\* the components listed from the last standard to the first
componentsReversed(standardFilenames, draws) ==
    [i \in 1..Len(standardFilenames) |->
        LET j == Len(standardFilenames) + 1 - i
        IN  [name |-> IF stored(standardFilenames[j]) # Null
                          /\ metaName(standardFilenames[j]) # ""
                      THEN metaName(standardFilenames[j]) ELSE standardFilenames[j],
             concentration |-> 100000 + MulFP(draws[i], 700000),
             contribution |-> Rat(0, 1)]]

\* standardFilenames.map(...): conc = 0.1 + Math.random() * 0.7
components(standardFilenames, draws) ==
    [i \in 1..Len(standardFilenames) |->
        [name |-> IF stored(standardFilenames[i]) # Null
                      /\ metaName(standardFilenames[i]) # ""
                  THEN metaName(standardFilenames[i]) ELSE standardFilenames[i],
         concentration |-> 100000 + MulFP(draws[i], 700000),
         contribution |-> Rat(0, 1)]]

\* the share of the total as a fraction of 1
contributionFraction(concentration, totalConc) ==
    IF totalConc > 0 THEN Rat(concentration, totalConc) ELSE Rat(0, 1)

\* c.contribution = totalConc > 0 ? (c.concentration / totalConc) * 100 : 0,
\* an exact fraction
contribution(concentration, totalConc) ==
    IF totalConc > 0 THEN Rat(concentration * 100, totalConc) ELSE Rat(0, 1)

analyzeConcentration(sampleFilename, standardFilenames, draws) ==
    IF stored(sampleFilename) = Null THEN [thrown |-> TRUE, message |-> "sample data lost"]
    ELSE LET sample == stored(sampleFilename)
             k == Len(standardFilenames)
             drawn == components(standardFilenames, draws)
             totalConc == SumConcentration(drawn, 1)
             original == absorbance(sample.T)
             n == Len(original)
             fittedCurve ==
                 [i \in 1..n |-> MulFP(original[i], 960000 + MulFP(draws[k + i], 80000))]
         IN  [thrown |-> FALSE,
              value |->
                  [components |->
                       [i \in 1..k |->
                           [drawn[i] EXCEPT
                               !.contribution =
                                   contribution(drawn[i].concentration, totalConc)]],
                   metrics |-> [rmse |-> 1200 + MulFP(draws[k + n + 1], 800),
                                residual_norm |-> 15000 + MulFP(draws[k + n + 2], 5000)],
                   chart_data |->
                       [lambda |-> sample.lambda,
                        original |-> original,
                        fitted |-> fittedCurve,
                        residual |-> [i \in 1..n |-> original[i] - fittedCurve[i]]]]]

NoCall == [pc |-> "idle"]

OtherUnchanged == UNCHANGED <<colorVars, predVars, concVars, userVars, appVars, libraryVars>>

CallAnalyzeConcentration ==
    /\ \E c \in Callers, sample \in NnlsSamples, standards \in NnlsStandardLists :
          /\ nnlsCalls[c] = NoCall
          /\ nnlsCalls' = [nnlsCalls EXCEPT ![c] = [pc |-> "delay", sample |-> sample,
                                                   standards |-> standards]]
    /\ OtherUnchanged

\* the call goes on after delay(1500) and settles
AnalyzeConcentrationSettle ==
    /\ \E c \in Callers, draws \in RandomDraws :
          /\ nnlsCalls[c].pc = "delay"
          /\ nnlsCalls' =
                 [nnlsCalls EXCEPT
                     ![c] = [pc |-> "settled", sample |-> nnlsCalls[c].sample,
                             standards |-> nnlsCalls[c].standards,
                             out |-> analyzeConcentration(nnlsCalls[c].sample,
                                                          nnlsCalls[c].standards, draws)]]
    /\ OtherUnchanged

\* the caller has taken the outcome
AnalyzeConcentrationTaken ==
    /\ \E c \in Callers :
          /\ nnlsCalls[c].pc = "settled"
          /\ nnlsCalls' = [nnlsCalls EXCEPT ![c] = NoCall]
    /\ OtherUnchanged

InitNnls == nnlsCalls = [c \in Callers |-> NoCall]

InitRest == InitNnls /\ InitUsers /\ InitApp

\* the stored records the calls read: the standard and two production mixes
\* with different spectra
NnlsDb ==
    db = [fn \in {Files[i] : i \in 1..Len(Files)} |->
             IF fn = "std_red.spc" THEN Record("standard", <<300000, 200000, 900000>>)
             ELSE IF fn = "prod_mix_purple.spc"
                  THEN Record("multicomponent", <<250000, 600000, 999000>>)
             ELSE Record("multicomponent", <<500, 437000, FP>>)]

(***************************************************************************)
(* ConcentrationPanel: text inputs are sequences of characters             *)
(***************************************************************************)
RECURSIVE trim(_)
trim(str) ==
    IF str # << >> /\ Head(str) = " " THEN trim(Tail(str))
    ELSE IF str # << >> /\ str[Len(str)] = " " THEN trim(SubSeq(str, 1, Len(str) - 1))
    ELSE str

RECURSIVE split(_, _)
split(str, seps) ==
    LET S == {i \in 1..Len(str) : str[i] \in seps}
    IN  IF S = {} THEN <<str>>
        ELSE LET at == CHOOSE i \in S : \A j \in S : i <= j
             IN  <<SubSeq(str, 1, at - 1)>> \o split(SubSeq(str, at + 1, Len(str)), seps)

NaN == [nan |-> TRUE]
Num(v) == [nan |-> FALSE, v |-> v]

RECURSIVE DigitsValue(_)
DigitsValue(str) ==
    IF str = << >> THEN 0
    ELSE 10 * DigitsValue(SubSeq(str, 1, Len(str) - 1))
             + (CHOOSE d \in 0..9 : HexDigit[d + 1] = str[Len(str)])

\* Number(text) for texts made of digits, blanks and other characters
Number(str) ==
    LET t == trim(str)
    IN  IF t = << >> THEN Num(0)
        ELSE IF \A i \in 1..Len(t) : \E d \in 0..9 : HexDigit[d + 1] = t[i]
             THEN Num(DigitsValue(t))
             ELSE NaN

\* split(','), trim, filter(Boolean)
Items(input) ==
    LET parts == split(input, {","})
        trimmed == [i \in 1..Len(parts) |-> trim(parts[i])]
        nonEmpty(x) == x # << >>
    IN  SelectSeq(trimmed, nonEmpty)

parseNumberList(input) ==
    LET items == Items(input)
        nums == [i \in 1..Len(items) |-> Number(items[i])]
        notNaN(x) == ~x.nan
        kept == SelectSeq(nums, notNaN)
    IN  [i \in 1..Len(kept) |-> kept[i].v]

parseIntervalList(input) ==
    LET items == Items(input)
        pair(segment) ==
            LET parts == split(segment, {"-", "~", ":"})
            IN  <<Number(parts[1]), IF Len(parts) >= 2 THEN Number(parts[2]) ELSE NaN>>
        pairs == [i \in 1..Len(items) |-> pair(items[i])]
        notNaN(x) == ~x[1].nan /\ ~x[2].nan
        kept == SelectSeq(pairs, notNaN)
    IN  [i \in 1..Len(kept) |-> <<kept[i][1].v, kept[i][2].v>>]

JsonObject == <<"{", "}">>
JsonNull == <<"n", "u", "l", "l">>
JsonBroken == <<"{">>

\* JSON.parse on the calibration texts of the model
JSONParse(text) ==
    IF text = JsonObject THEN [thrown |-> FALSE, value |-> [tag |-> "object"]]
    ELSE IF text = JsonNull THEN [thrown |-> FALSE, value |-> Null]
    ELSE [thrown |-> TRUE, message |-> "Unexpected end of JSON input"]

parseCalibration(json) ==
    IF trim(json) = << >> THEN [thrown |-> FALSE, value |-> Null]
    ELSE JSONParse(json)

Samples1 == {"prod_mix_purple.spc"}
Standards1 == {"std_red.spc"}
AnalysisMethods ==
    {"nnls", "lambda_equations", "peak_area", "ratio_derivative_2c",
     "zero_cross_ratio_derivative_3c"}
CalibrationMethods == {"lambda_equations", "peak_area"}
RatioMethods == {"ratio_derivative_2c", "zero_cross_ratio_derivative_3c"}

CalibrationTexts == {<< >>, JsonObject, JsonNull, JsonBroken}
LambdaPointsTexts == {<< >>, <<"4", "5", "0", ",", " ", "x">>}
AreaIntervalsTexts == {<< >>, <<"4", "0", "0", "-", "4", "5", "0", ",", "x">>}
DivisorComponents == {"", "B"}

EmptyRow ==
    [component |-> "", lambda_nm |-> << >>, k |-> << >>, b |-> << >>, divisor_component |-> ""]
FilledRow ==
    [component |-> "A", lambda_nm |-> <<"4", "5", "0">>, k |-> <<"2">>, b |-> << >>,
     divisor_component |-> ""]
RatioRowsChoices == {<<EmptyRow>>, <<FilledRow, EmptyRow>>}

\* what the requests may answer
SampleResponses ==
    {[lambda |-> RecordGrid, A |-> <<100000, 500000, 20000>>], [lambda |-> << >>, A |-> << >>]}
DivisorResponse == [lambda |-> RecordGrid, A |-> <<300000, 200000, 900000>>]
RequestErrors == {"Network Error", ""}

NoRun == [pc |-> "idle"]

\* err?.message || <default message>; the messages of the source are rendered
\* in ASCII
MessageOf(message) == IF message = "" THEN "analysis failed" ELSE message

Complete(row) == row.component # "" /\ row.lambda_nm # << >> /\ row.k # << >>

canAnalyze ==
    IF selectedSample = "" \/ analysisLoading THEN FALSE
    ELSE IF analysisMethod = "nnls" THEN Len(selectedStandards) > 0
    ELSE IF analysisMethod \in CalibrationMethods THEN Len(trim(calibrationJson)) > 0
    ELSE IF analysisMethod \in RatioMethods
         THEN divisorStandard # "" /\ \E i \in 1..Len(ratioRows) : Complete(ratioRows[i])
    ELSE FALSE

\* the state a handleAnalyze call has captured, as far as the branch of its
\* method reads it
Closure ==
    [selectedSample |-> selectedSample,
     analysisMethod |-> analysisMethod,
     calibrationJson |->
         IF analysisMethod \in CalibrationMethods THEN calibrationJson ELSE << >>,
     lambdaPointsInput |->
         IF analysisMethod = "lambda_equations" THEN lambdaPointsInput ELSE << >>,
     areaIntervalsInput |->
         IF analysisMethod = "peak_area" THEN areaIntervalsInput ELSE << >>,
     divisorStandard |-> IF analysisMethod \in RatioMethods THEN divisorStandard ELSE "",
     divisorComponent |-> IF analysisMethod \in RatioMethods THEN divisorComponent ELSE "",
     ratioRows |-> IF analysisMethod \in RatioMethods THEN ratioRows ELSE << >>]

Throw(message) == [kind |-> "throw", message |-> message]
Await(request) == [kind |-> "await", run |-> request]

Field(name, value) == name :> value
NoField == << >>

\* payload.calibration, payload.lambda_points, payload.area_intervals
calibrationFields(c, calibration) ==
    Field("calibration", calibration)
        @@ (IF c.analysisMethod = "lambda_equations" /\ parseNumberList(c.lambdaPointsInput) # << >>
            THEN Field("lambda_points", parseNumberList(c.lambdaPointsInput)) ELSE NoField)
        @@ (IF c.analysisMethod = "peak_area" /\ parseIntervalList(c.areaIntervalsInput) # << >>
            THEN Field("area_intervals", parseIntervalList(c.areaIntervalsInput)) ELSE NoField)

\* handleAnalyze sending the request whatever parseCalibration returned
afterSampleNoCheck(c, sampleData) ==
    IF c.analysisMethod \in CalibrationMethods /\ ~parseCalibration(c.calibrationJson).thrown
    THEN Await([pc |-> "analyzeConcentrationMethods",
                payload |-> [method |-> c.analysisMethod,
                             sample |-> [wavelength_nm |-> sampleData.lambda,
                                         absorbance |-> sampleData.A]]
                            @@ calibrationFields(c, parseCalibration(c.calibrationJson).value)])
    ELSE Throw("sample has no spectrum")

\* handleAnalyze from the answer to fetchHistoryItem(selectedSample) to its
\* next await or throw
afterSample(c, sampleData) ==
    IF Len(sampleData.lambda) = 0 \/ Len(sampleData.A) = 0 THEN Throw("sample has no spectrum")
    ELSE LET payload == [method |-> c.analysisMethod,
                         sample |-> [wavelength_nm |-> sampleData.lambda,
                                     absorbance |-> sampleData.A]]
         IN  IF c.analysisMethod \in CalibrationMethods
             THEN LET parsed == parseCalibration(c.calibrationJson)
                  IN  IF parsed.thrown THEN Throw(parsed.message)
                      ELSE IF parsed.value = Null THEN Throw("calibration JSON required")
                      ELSE Await([pc |-> "analyzeConcentrationMethods",
                                  payload |-> payload @@ calibrationFields(c, parsed.value)])
             ELSE IF c.analysisMethod \in RatioMethods
             THEN IF c.divisorStandard = "" THEN Throw("divisor reference required")
                  ELSE Await([pc |-> "fetchDivisor", closure |-> c, payload |-> payload])
             ELSE Await([pc |-> "analyzeConcentrationMethods", payload |-> payload])

ratioMethod(row) ==
    [component |-> row.component,
     lambda_nm |-> Number(row.lambda_nm),
     calib |-> [k |-> Number(row.k), b |-> IF row.b = << >> THEN Num(0) ELSE Number(row.b)]]
        @@ (IF row.divisor_component # ""
            THEN Field("divisor_component", row.divisor_component) ELSE NoField)

\* the ratio group always sent as ratio_methods
ratioFieldsSame(c, divisorData, methods) ==
    Field("divisor_reference",
          [wavelength_nm |-> divisorData.lambda, absorbance |-> divisorData.A])
        @@ (IF c.divisorComponent # ""
            THEN Field("divisor_component", c.divisorComponent) ELSE NoField)
        @@ Field("ratio_methods", methods)

\* payload.divisor_reference, payload.divisor_component and the method list
ratioFields(c, divisorData, methods) ==
    Field("divisor_reference",
          [wavelength_nm |-> divisorData.lambda, absorbance |-> divisorData.A])
        @@ (IF c.divisorComponent # ""
            THEN Field("divisor_component", c.divisorComponent) ELSE NoField)
        @@ (IF c.analysisMethod = "ratio_derivative_2c"
            THEN Field("ratio_methods", methods) ELSE Field("zero_cross_methods", methods))

\* handleAnalyze from the answer to fetchHistoryItem(divisorStandard) on
afterDivisor(c, payload, divisorData) ==
    LET rows == SelectSeq(c.ratioRows, Complete)
        methods == [i \in 1..Len(rows) |-> ratioMethod(rows[i])]
    IN  IF Len(methods) = 0 THEN Throw("ratio calibration row required")
        ELSE Await([pc |-> "analyzeConcentrationMethods",
                    payload |-> payload @@ ratioFields(c, divisorData, methods)])

SetForm(sample, standards, method, json, points, intervals, divisor, component, rows) ==
    /\ selectedSample' = sample
    /\ selectedStandards' = standards
    /\ analysisMethod' = method
    /\ calibrationJson' = json
    /\ lambdaPointsInput' = points
    /\ areaIntervalsInput' = intervals
    /\ divisorStandard' = divisor
    /\ divisorComponent' = component
    /\ ratioRows' = rows
    /\ UNCHANGED <<panel, result, error, analysisLoading, run>>
    /\ UNCHANGED <<colorVars, predVars, restVars>>

SetSelectedSample ==
    \E v \in {""} \cup Samples1 :
        SetForm(v, selectedStandards, analysisMethod, calibrationJson, lambdaPointsInput,
                areaIntervalsInput, divisorStandard, divisorComponent, ratioRows)

includes(list, x) == \E i \in 1..Len(list) : list[i] = x

toggleStandard(prev, filename) ==
    IF includes(prev, filename)
    THEN LET other(x) == x # filename IN SelectSeq(prev, other)
    ELSE Append(prev, filename)

ToggleStandard ==
    \E filename \in Standards1 :
        SetForm(selectedSample, toggleStandard(selectedStandards, filename), analysisMethod,
                calibrationJson, lambdaPointsInput, areaIntervalsInput, divisorStandard,
                divisorComponent, ratioRows)

SetAnalysisMethod ==
    /\ panel = "second"
    /\ \E v \in AnalysisMethods :
          SetForm(selectedSample, selectedStandards, v, calibrationJson, lambdaPointsInput,
                  areaIntervalsInput, divisorStandard, divisorComponent, ratioRows)

SetCalibrationJson ==
    /\ panel = "second"
    /\ analysisMethod \in CalibrationMethods
    /\ \E v \in CalibrationTexts :
          SetForm(selectedSample, selectedStandards, analysisMethod, v, lambdaPointsInput,
                  areaIntervalsInput, divisorStandard, divisorComponent, ratioRows)

SetLambdaPointsInput ==
    /\ panel = "second"
    /\ analysisMethod = "lambda_equations"
    /\ \E v \in LambdaPointsTexts :
          SetForm(selectedSample, selectedStandards, analysisMethod, calibrationJson, v,
                  areaIntervalsInput, divisorStandard, divisorComponent, ratioRows)

SetAreaIntervalsInput ==
    /\ panel = "second"
    /\ analysisMethod = "peak_area"
    /\ \E v \in AreaIntervalsTexts :
          SetForm(selectedSample, selectedStandards, analysisMethod, calibrationJson,
                  lambdaPointsInput, v, divisorStandard, divisorComponent, ratioRows)

SetDivisorStandard ==
    /\ panel = "second"
    /\ analysisMethod \in RatioMethods
    /\ \E v \in {""} \cup Standards1 :
          SetForm(selectedSample, selectedStandards, analysisMethod, calibrationJson,
                  lambdaPointsInput, areaIntervalsInput, v, divisorComponent, ratioRows)

SetDivisorComponent ==
    /\ panel = "second"
    /\ analysisMethod \in RatioMethods
    /\ \E v \in DivisorComponents :
          SetForm(selectedSample, selectedStandards, analysisMethod, calibrationJson,
                  lambdaPointsInput, areaIntervalsInput, divisorStandard, v, ratioRows)

\* the handlers of the calibration rows: add, remove, edit a field
EditRatioRows ==
    /\ panel = "second"
    /\ analysisMethod \in RatioMethods
    /\ \E v \in RatioRowsChoices :
          SetForm(selectedSample, selectedStandards, analysisMethod, calibrationJson,
                  lambdaPointsInput, areaIntervalsInput, divisorStandard, divisorComponent, v)

Idling == /\ UNCHANGED formVars
          /\ UNCHANGED panel
          /\ UNCHANGED <<colorVars, predVars, restVars>>

\* the call goes on to its next await, or ends in a catch without finally
SettleStuck(outcome) ==
    IF outcome.kind = "throw"
    THEN /\ error' = [tag |-> "error", message |-> MessageOf(outcome.message)]
         /\ run' = NoRun
         /\ UNCHANGED <<result, analysisLoading>>
    ELSE /\ run' = outcome.run
         /\ UNCHANGED <<result, error, analysisLoading>>

\* the call goes on to its next await, or ends in catch and finally
Settle(outcome) ==
    IF outcome.kind = "throw"
    THEN /\ error' = [tag |-> "error", message |-> MessageOf(outcome.message)]
         /\ analysisLoading' = FALSE
         /\ run' = NoRun
         /\ UNCHANGED result
    ELSE /\ run' = outcome.run
         /\ UNCHANGED <<result, error, analysisLoading>>

\* setResult(res) and finally
Finish(res) ==
    /\ result' = res
    /\ analysisLoading' = FALSE
    /\ run' = NoRun
    /\ UNCHANGED error

\* handleAnalyze of the later version that keeps the previous result and error
HandleAnalyzeKeep ==
    /\ panel = "second"
    /\ canAnalyze
    /\ Idling
    /\ IF selectedSample = ""
       THEN UNCHANGED <<result, error, analysisLoading, run>>
       ELSE /\ UNCHANGED <<result, error>>
            /\ analysisLoading' = TRUE
            /\ IF analysisMethod = "nnls"
               THEN run' = [pc |-> "analyzeConcentration", sample |-> selectedSample,
                            standards |-> selectedStandards]
               ELSE run' = [pc |-> "fetchSample", closure |-> Closure]

\* a click on the button of the later version, enabled while canAnalyze:
\* handleAnalyze up to its first await
HandleAnalyze ==
    /\ panel = "second"
    /\ canAnalyze
    /\ Idling
    /\ IF selectedSample = ""
       THEN UNCHANGED <<result, error, analysisLoading, run>>
       ELSE /\ result' = Null
            /\ IF analysisMethod = "nnls"
               THEN IF Len(selectedStandards) = 0
                    THEN /\ error' = [tag |-> "error",
                                      message |-> MessageOf("standard required")]
                         /\ analysisLoading' = FALSE
                         /\ run' = NoRun
                    ELSE /\ error' = Null
                         /\ analysisLoading' = TRUE
                         /\ run' = [pc |-> "analyzeConcentration", sample |-> selectedSample,
                                    standards |-> selectedStandards]
               ELSE /\ error' = Null
                    /\ analysisLoading' = TRUE
                    /\ run' = [pc |-> "fetchSample", closure |-> Closure]

\* a click on the button of the earlier version, enabled while a sample and
\* a standard are selected and nothing is loading
HandleAnalyzeFirst ==
    /\ panel = "first"
    /\ ~(selectedSample = "" \/ Len(selectedStandards) = 0 \/ analysisLoading)
    /\ Idling
    /\ IF selectedSample = "" \/ Len(selectedStandards) = 0
       THEN UNCHANGED <<result, error, analysisLoading, run>>
       ELSE /\ analysisLoading' = TRUE
            /\ error' = Null
            /\ result' = Null
            /\ run' = [pc |-> "analyzeConcentration", sample |-> selectedSample,
                       standards |-> selectedStandards]

AnalyzeConcentrationResolve ==
    /\ run.pc = "analyzeConcentration"
    /\ Idling
    /\ Finish([tag |-> "result", sample |-> run.sample, standards |-> run.standards])

\* a request of the call in flight fails
RequestReject ==
    /\ run.pc # "idle"
    /\ Idling
    /\ \E message \in RequestErrors : Settle(Throw(message))

FetchSampleResolve ==
    /\ run.pc = "fetchSample"
    /\ Idling
    /\ \E sampleData \in SampleResponses : Settle(afterSample(run.closure, sampleData))

FetchDivisorResolve ==
    /\ run.pc = "fetchDivisor"
    /\ Idling
    /\ Settle(afterDivisor(run.closure, run.payload, DivisorResponse))

AnalyzeMethodsResolve ==
    /\ run.pc = "analyzeConcentrationMethods"
    /\ Idling
    /\ Finish([tag |-> "result", method |-> run.payload.method])

InitConc ==
    /\ selectedSample = ""
    /\ selectedStandards = << >>
    /\ analysisMethod = "nnls"
    /\ calibrationJson = << >>
    /\ lambdaPointsInput = << >>
    /\ areaIntervalsInput = << >>
    /\ divisorStandard = ""
    /\ divisorComponent = ""
    /\ ratioRows = <<EmptyRow>>
    /\ result = Null
    /\ error = Null
    /\ analysisLoading = FALSE
    /\ run = NoRun

(***************************************************************************)
(* ConcentrationPanel: the library tab and the lists of the analysis tab.  *)
(* history is modelled as the set of its items, an item by its filename    *)
(* and the save_type of its meta.                                          *)
(***************************************************************************)
\* what fetchHistoryList returns for the store d
fetchHistoryList(d) ==
    {[filename |-> k, save_type |-> d[k].save_type] : k \in {x \in DOMAIN d : d[x] # Missing}}

listedStandards == {h \in history : h.save_type = "standard"}
listedSamples == {h \in history : h.save_type # "standard"}

EditForms ==
    {[name |-> "renamed", concentration |-> "2.0", type |-> "standard"],
     [name |-> "renamed", concentration |-> "", type |-> "multicomponent"]}

LibraryFrame ==
    /\ UNCHANGED <<analysisMethod, calibrationJson, lambdaPointsInput, areaIntervalsInput,
                   divisorStandard, divisorComponent, ratioRows>>
    /\ UNCHANGED <<panel, result, error, analysisLoading, run>>
    /\ UNCHANGED <<historyList, listLoad, selectedHistory, baseData, loading, params, itemLoads>>
    /\ UNCHANGED <<colorVars, nnlsVars, userVars, appVars>>

\* loadHistory of the effect on activeTab
LoadLibrary ==
    /\ history' = fetchHistoryList(db)
    /\ UNCHANGED <<db, selectedSample, selectedStandards>>
    /\ LibraryFrame

\* the sample select, its options the samples of history
SelectSample ==
    /\ \E v \in {""} \cup {h.filename : h \in listedSamples} : selectedSample' = v
    /\ UNCHANGED <<db, history, selectedStandards>>
    /\ LibraryFrame

\* a checkbox of the standards list
ToggleListed ==
    /\ \E h \in listedStandards :
          selectedStandards' = toggleStandard(selectedStandards, h.filename)
    /\ UNCHANGED <<db, history, selectedSample>>
    /\ LibraryFrame

\* the record r with field k set to v
Put(r, k, v) == [x \in DOMAIN r \cup {k} |-> IF x = k THEN v ELSE r[x]]

\* the stored record after updateHistoryItem
updateHistoryItem(r, update) ==
    LET named == IF update.name # "" THEN Put(r, "name", update.name) ELSE r
        dosed == Put(named, "concentration", update.concentration)
    IN  IF update.save_type # "" THEN Put(dosed, "save_type", update.save_type) ELSE dosed

\* saveEdit on the row that is edited, with the loadHistory that follows
saveEdit ==
    /\ \E h \in history, form \in EditForms :
          db' = IF db[h.filename] # Missing
                THEN [db EXCEPT ![h.filename] =
                         updateHistoryItem(@, [name |-> form.name,
                                               concentration |-> form.concentration,
                                               save_type |-> form.type])]
                ELSE db
    /\ history' = fetchHistoryList(db')
    /\ UNCHANGED <<selectedSample, selectedStandards>>
    /\ LibraryFrame

\* handleDelete after the confirmation, with the loadHistory that follows
handleDelete ==
    /\ \E h \in history :
          /\ db' = [db EXCEPT ![h.filename] = Missing]
          /\ selectedSample' = IF selectedSample = h.filename THEN "" ELSE selectedSample
          /\ selectedStandards' =
                 IF includes(selectedStandards, h.filename)
                 THEN toggleStandard(selectedStandards, h.filename)
                 ELSE selectedStandards
    /\ history' = fetchHistoryList(db')
    /\ LibraryFrame

\* the records of the mock data with a fixed spectrum
FixedDb ==
    db = [fn \in {Files[i] : i \in 1..Len(Files)} |->
             Record(IF fn = "std_red.spc" THEN "standard" ELSE "multicomponent",
                    <<250000, 600000, 999000>>)]

InitAnalysis ==
    /\ call = Idle
    /\ InitRest
    /\ FixedDb
    /\ InitPanel
    /\ panel \in {"first", "second"}
    /\ InitConc

NextAnalysis ==
    \/ SetSelectedSample
    \/ ToggleStandard
    \/ SetAnalysisMethod
    \/ SetCalibrationJson
    \/ SetLambdaPointsInput
    \/ SetAreaIntervalsInput
    \/ SetDivisorStandard
    \/ SetDivisorComponent
    \/ EditRatioRows
    \/ HandleAnalyze
    \/ HandleAnalyzeFirst
    \/ AnalyzeConcentrationResolve
    \/ RequestReject
    \/ FetchSampleResolve
    \/ FetchDivisorResolve
    \/ AnalyzeMethodsResolve

SpecAnalysis == InitAnalysis /\ [][NextAnalysis]_vars

\* a request of the handleAnalyze call in flight settles
AnalyzeSettles ==
    \/ AnalyzeConcentrationResolve
    \/ RequestReject
    \/ FetchSampleResolve
    \/ FetchDivisorResolve
    \/ AnalyzeMethodsResolve

\* every request is answered or fails: a pending request does not stay
\* pending for ever
SpecAnalysisFair == SpecAnalysis /\ WF_vars(AnalyzeSettles)

InitPred ==
    /\ call = Idle
    /\ InitRest
    /\ InitDb
    /\ InitPanel
    /\ panel = "second"
    /\ InitConc

NextPred ==
    \/ LoadHistory
    \/ HandleSelectHistory
    \/ FetchResolve
    \/ FetchReject
    \/ SetExhaustionRate
    \/ SetLiquorRatio
    \/ SetFabricType
    \/ SetWeight
    \/ DeleteItem

SpecPred == InitPred /\ [][NextPred]_vars

\* the colour utilities are called with the panel left as first rendered
InitColor ==
    /\ call = Idle
    /\ InitRest
    /\ FixedDb
    /\ InitPanel
    /\ panel = "second"
    /\ InitConc

NextColor ==
    \/ CallRtoKS
    \/ CallKStoR
    \/ CallInterpolate
    \/ CallReflectanceToColor
    \/ CallScaled
    \/ Return

SpecColor == InitColor /\ [][NextColor]_vars

\* the prediction panel and the concentration panel of one application
InitPanels ==
    /\ call = Idle
    /\ InitRest
    /\ NnlsDb
    /\ InitPanel
    /\ panel = "second"
    /\ InitConc

NextPanels ==
    \/ LoadHistory
    \/ HandleSelectHistory
    \/ FetchResolve
    \/ SetExhaustionRate
    \/ SetLiquorRatio
    \/ SetFabricType
    \/ SetWeight
    \/ SetSelectedSample
    \/ ToggleStandard
    \/ HandleAnalyze
    \/ AnalyzeConcentrationResolve
    \/ RequestReject

SpecPanels == InitPanels /\ [][NextPanels]_vars

InitUserStore ==
    /\ call = Idle
    /\ FixedDb
    /\ InitPanel
    /\ panel = "second"
    /\ InitConc
    /\ InitNnls
    /\ InitApp
    /\ \E list \in StoredUsers : users = initMockData(list)
    /\ session = Null
    /\ now = 1
    /\ userOut = NoOutcome

NextUsers ==
    \/ Reload
    \/ Tick
    \/ LoginUser
    \/ AddUser
    \/ DeleteUser

SpecUsers == InitUserStore /\ [][NextUsers]_vars

NextSession ==
    \/ LoginUser
    \/ LogoutUser
    \/ GetSessionUser
    \/ UpdateSessionActivity
    \/ Elapse

SpecSession == InitUserStore /\ [][NextSession]_vars

\* the machine sleeps: time passes and no timer runs until it wakes
Suspend ==
    /\ \E d \in Delays :
          /\ now + d <= MaxTime
          /\ now' = now + d
    /\ UNCHANGED <<users, session, userOut, monitorVars>>
    /\ AppUnchanged

NextMonitor ==
    \/ Mount
    \/ LoginSubmit
    \/ handleLogout
    \/ SetActiveModule
    \/ throttledHandler
    \/ ThrottleFire
    \/ CheckIntervalFire
    \/ Advance
    \/ Suspend

SpecMonitor == InitUserStore /\ [][NextMonitor]_vars

NextProcess ==
    \/ LoginSubmit
    \/ SetSubTab
    \/ handleProcess
    \/ handleLoadHistoryItem
    \/ ProcessResolve
    \/ ProcessReject
    \/ LoadItemResolve
    \/ LoadItemReject
    \/ SetSaveForm
    \/ SaveClick
    \/ DeleteItem

InitProcessStore ==
    /\ call = Idle
    /\ FixedDb
    /\ InitPanel
    /\ panel = "second"
    /\ InitConc
    /\ InitRest

SpecProcess == InitProcessStore /\ [][NextProcess]_vars

NextLibrary ==
    \/ LoadLibrary
    \/ SelectSample
    \/ ToggleListed
    \/ saveEdit
    \/ handleDelete

SpecLibrary == InitProcessStore /\ [][NextLibrary]_vars

InitNnlsCalls ==
    /\ call = Idle
    /\ NnlsDb
    /\ InitPanel
    /\ panel = "second"
    /\ InitConc
    /\ InitRest

NextNnls ==
    \/ CallAnalyzeConcentration
    \/ AnalyzeConcentrationSettle
    \/ AnalyzeConcentrationTaken

SpecNnls == InitNnlsCalls /\ [][NextNnls]_vars

(***************************************************************************)
(* Properties of the colour utilities                                      *)
(***************************************************************************)

\* C2: KStoR(RtoKS(R)) equals R within 1e-6 for every R in [0.01, 0.99].
C2_RoundTrip ==
    (call.op = "KStoR" /\ call.R >= 10000 /\ call.R <= 990000)
        => Abs(call.out - call.R) <= 1

C2_Witness ==
    /\ call.op = "KStoR"
    /\ call.R = 10000
    /\ call.KS = [num |-> 9801, den |-> 200]
    /\ Abs(call.out - call.R) <= 1

Ascending(lambda) == \A i \in 1..(Len(lambda) - 1) : lambda[i] < lambda[i + 1]

\* out is the value at target of the line through (x0, y0) and (x1, y1),
\* rounded down to 1/FP
OnSegment(x0, y0, x1, y1, target, out) ==
    /\ (out - y0) * (x1 - x0) <= (y1 - y0) * (target - x0)
    /\ (y1 - y0) * (target - x0) < (out - y0 + 1) * (x1 - x0)

\* C4: on a curve with at least one point and strictly ascending wavelengths,
\* interpolate returns the first value for a target at or below the first
\* wavelength, the last value for a target at or above the last wavelength,
\* and otherwise the linear interpolation between the two bracketing points;
\* a target equal to a sample wavelength returns that sample's value.
C4_Interpolate ==
    (call.op = "interpolate" /\ Len(call.lambda) >= 1 /\ Ascending(call.lambda)) =>
        LET n == Len(call.lambda)
        IN  /\ call.target <= call.lambda[1] => call.out = call.values[1]
            /\ call.target >= call.lambda[n] => call.out = call.values[n]
            /\ \A i \in 1..n : call.target = call.lambda[i] => call.out = call.values[i]
            /\ \A i \in 1..(n - 1) :
                  (call.lambda[i] < call.target /\ call.target <= call.lambda[i + 1]) =>
                      OnSegment(call.lambda[i], call.values[i],
                                call.lambda[i + 1], call.values[i + 1],
                                call.target, call.out)

C4_Witness ==
    /\ call.op = "interpolate"
    /\ call.lambda = <<450, 520, 650>>
    /\ call.values = <<900000, 300000, 900000>>
    /\ call.target = 455
    /\ call.out = 857142

\* C5: reflectanceToColor evaluates the reflectance at exactly the 31
\* wavelengths 400, 410, ..., 700, whatever the input grid, and at each of them
\* uses r / 100 when the interpolated value r is greater than 1, r otherwise.
C5_Sampling ==
    call.op = "reflectanceToColor" =>
        /\ Len(call.samples) = 31
        /\ \A i \in 1..31 :
              LET sm == call.samples[i]
              IN  /\ sm.nm = 390 + 10 * i
                  /\ sm.rVal = interpolate(call.lambda, call.R, sm.nm)
                  /\ sm.rFactor = IF sm.rVal > FP THEN sm.rVal \div 100 ELSE sm.rVal

C5_Witness ==
    /\ call.op = "reflectanceToColor"
    /\ \E i \in 1..31 : call.samples[i].rVal > FP /\ call.samples[i].rFactor < FP
    /\ \E i \in 1..31 : call.samples[i].rVal = FP /\ call.samples[i].rFactor = FP

InUnit(R) == \A i \in 1..Len(R) : R[i] >= 0 /\ R[i] <= FP

\* C6, as the code has it: for a reflectance curve with values in [0, 1] that
\* is not zero at every sampled wavelength, scaling all values up by a factor
\* greater than 1 that keeps them at or below 1 increases Y.
C6_Monotonic ==
    (/\ call.op = "scaled"
     /\ call.factor[1] > call.factor[2]
     /\ InUnit(call.R)
     /\ InUnit(ScaleCurve(call.R, call.factor))
     /\ \E i \in 1..Len(call.samples) : call.samples[i].rVal > 0)
        => call.out.xyz.y > call.base.xyz.y

C6_Witness ==
    /\ call.op = "scaled"
    /\ call.R = <<400000, 0>>
    /\ call.factor = <<2, 1>>
    /\ call.out.xyz.y > call.base.xyz.y

\* C6 as stated: for every curve, scaling by a factor greater than 1 increases Y
C6_Original ==
    (call.op = "scaled" /\ call.factor[1] > call.factor[2])
        => call.out.xyz.y > call.base.xyz.y

\* C7: RtoKS clamps R to [0.001, 0.999] before computing (1 - R)^2 / (2 R):
\* every R <= 0.001 gives the result of 0.001, every R >= 0.999 the result of
\* 0.999, and the result is finite and non-negative.
C7_Clamp ==
    call.op = "RtoKS" =>
        /\ call.R <= 1000 => call.out = [num |-> 998001, den |-> 2000]
        /\ call.R >= 999000 => call.out = [num |-> 1, den |-> 1998000]
        /\ (call.R >= 1000 /\ call.R <= 999000) =>
              BigMul(Big(call.out.num), BigMul(Big(2 * call.R), Big(FP)))
                  = BigMul(Big(call.out.den), BigSq(Big(FP - call.R)))
        /\ call.out.den > 0
        /\ call.out.num >= 0

C7_Witness ==
    /\ call.op = "RtoKS"
    /\ call.R = 2 * FP
    /\ call.out = [num |-> 1, den |-> 1998000]

HexValue(ch) == CHOOSE i \in 0..15 : HexDigit[i + 1] = ch

\* n is the channel value c (linear, in 1/FP) gamma-corrected, clamped to
\* [0, 1], scaled by 255 and rounded
IsChannel(c, n) ==
    /\ n \in 0..255
    /\ c <= 0 => n = 0
    /\ c >= FP => n = 255
    /\ (c > 0 /\ c <= 3130) => 2 * Abs(n * (10 ^ 7) - 32946 * c) <= 10 ^ 7
    /\ (c > 3130 /\ n > 0) => GammaAtLeast(BigMul(Pow5(Big(c)), GammaDen12), n)
    /\ (c > 3130 /\ n < 255) => ~GammaAtLeast(BigMul(Pow5(Big(c)), GammaDen12), n + 1)

\* C8: reflectanceToColor returns rgb as '#' followed by exactly six
\* hexadecimal digits, each channel being the value clamped to [0, 1], scaled
\* by 255 and rounded.
C8_Rgb ==
    call.op \in {"reflectanceToColor", "scaled"} =>
        LET rgb == call.out.rgb
            lin == linearRgb(call.out.xyz)
        IN  /\ Len(rgb) = 7
            /\ rgb[1] = "#"
            /\ \A i \in 2..7 : \E d \in 1..16 : rgb[i] = HexDigit[d]
            /\ IsChannel(lin.r, 16 * HexValue(rgb[2]) + HexValue(rgb[3]))
            /\ IsChannel(lin.g, 16 * HexValue(rgb[4]) + HexValue(rgb[5]))
            /\ IsChannel(lin.bl, 16 * HexValue(rgb[6]) + HexValue(rgb[7]))

C8_Witness ==
    /\ call.op = "reflectanceToColor"
    /\ call.R = <<0, 400000>>
    /\ Len(call.out.rgb) = 7
    /\ \E i \in 2..7 : call.out.rgb[i] = "0"
    /\ \E i \in 2..7 : call.out.rgb[i] \notin {"0", "f"}

(***************************************************************************)
(* Properties of the prediction                                            *)
(***************************************************************************)

Baseline == params.exhaustionRate = 70 /\ params.liquorRatio = 10

fitted == baseData.chart_data.fitted

\* C1, as the code has it: with exhaustionRate = 70 and liquorRatio = 10 the
\* predicted reflectance equals the base reflectance within 1e-6 at every
\* wavelength where the base value lies in [0.001, 0.999]; a base value below
\* 0.001 is predicted as 0.001 and one above 0.999 as 0.999.
C1_Baseline ==
    (baseData # Null /\ Baseline) =>
        \A i \in 1..Len(fitted) :
            /\ (fitted[i] >= RMin /\ fitted[i] <= RMax)
                   => Abs(prediction.rCurve[i] - fitted[i]) <= 1
            /\ fitted[i] < RMin => Abs(prediction.rCurve[i] - RMin) <= 1
            /\ fitted[i] > RMax => Abs(prediction.rCurve[i] - RMax) <= 1

C1_Witness ==
    /\ baseData # Null
    /\ Baseline
    /\ fitted = <<250000, 600000, 999000>>
    /\ \A i \in 1..3 : Abs(prediction.rCurve[i] - fitted[i]) <= 1

\* C1 as stated: the predicted curve equals the base curve for every base
\* curve loaded from a stored record
C1_Original ==
    (baseData # Null /\ Baseline) =>
        \A i \in 1..Len(fitted) : Abs(prediction.rCurve[i] - fitted[i]) <= 1

BigMul3(a, b, c) == BigMul(Big(a), BigMul(Big(b), Big(c)))

\* C3: for every exhaustionRate and liquorRatio the user can set, the depth
\* factor is (exhaustionRate / 70) * (10 / liquorRatio), and the K/S value at
\* each wavelength is RtoKS of the base reflectance times that factor.
C3_DepthFactor ==
    baseData # Null =>
        LET e == params.exhaustionRate
            l == params.liquorRatio
            df == prediction.depthFactor
        IN  /\ df.den > 0
            /\ df.num * 70 * l = df.den * e * 10
            /\ Len(prediction.ksCurve) = Len(fitted)
            /\ \A i \in 1..Len(fitted) :
                  LET ks == prediction.ksCurve[i]
                      base == RtoKS(fitted[i])
                  IN  /\ ks.den > 0
                      /\ BigMul(Big(ks.num), BigMul3(base.den, 70, l))
                             = BigMul(Big(ks.den), BigMul3(base.num, e, 10))

C3_Witness ==
    /\ baseData # Null
    /\ params.exhaustionRate = 100
    /\ params.liquorRatio = 3
    /\ prediction.depthFactor = [num |-> 100, den |-> 21]
    /\ fitted[2] = 437000
    /\ prediction.ksCurve[2] = [num |-> 316969, den |-> 183540]

(***************************************************************************)
(* Properties of handleAnalyze                                             *)
(***************************************************************************)

ExactlyOne == (result = Null) # (error = Null)

\* C9: an analysis request never yields a partial result: in no reachable
\* state are a result and an error both non-null, and when a handleAnalyze
\* call finishes exactly one of result and error is set.
C9_NoPartial ==
    /\ [](~(result # Null /\ error # Null))
    /\ [][(run.pc # "idle" /\ run'.pc = "idle") => ExactlyOne']_vars

C9_Witness ==
    /\ run.pc = "idle"
    /\ ~analysisLoading
    /\ result = Null
    /\ error = [tag |-> "error", message |-> "Unexpected end of JSON input"]

CalibrationGroup == {"calibration", "lambda_points", "area_intervals"}
RatioGroup == {"divisor_reference", "divisor_component", "ratio_methods", "zero_cross_methods"}

\* C10: every payload sent to analyzeConcentrationMethods carries exactly the
\* field group of its method: for lambda_equations and peak_area calibration
\* and no field of the ratio group, lambda_points only for lambda_equations
\* and area_intervals only for peak_area; for the two ratio-derivative methods
\* divisor_reference and exactly the matching one of ratio_methods and
\* zero_cross_methods, and no field of the calibration group.
C10_PayloadFields ==
    run.pc = "analyzeConcentrationMethods" =>
        LET fields == DOMAIN run.payload
            method == run.payload.method
        IN  /\ {"method", "sample"} \subseteq fields
            /\ method \in CalibrationMethods \cup RatioMethods
            /\ method \in CalibrationMethods =>
                  /\ "calibration" \in fields
                  /\ fields \cap RatioGroup = {}
                  /\ "lambda_points" \in fields => method = "lambda_equations"
                  /\ "area_intervals" \in fields => method = "peak_area"
            /\ method \in RatioMethods =>
                  /\ "divisor_reference" \in fields
                  /\ "ratio_methods" \in fields <=> method = "ratio_derivative_2c"
                  /\ "zero_cross_methods" \in fields <=> method = "zero_cross_ratio_derivative_3c"
                  /\ fields \cap CalibrationGroup = {}

C10_Witness ==
    /\ run.pc = "analyzeConcentrationMethods"
    /\ run.payload.method = "zero_cross_ratio_derivative_3c"
    /\ DOMAIN run.payload
           = {"method", "sample", "divisor_reference", "divisor_component", "zero_cross_methods"}

MissingCalibration(c) ==
    /\ c.analysisMethod \in CalibrationMethods
    /\ ~parseCalibration(c.calibrationJson).thrown
    /\ parseCalibration(c.calibrationJson).value = Null

MethodList(payload) ==
    IF payload.method = "ratio_derivative_2c" THEN payload.ratio_methods
    ELSE payload.zero_cross_methods

Returned(c) == nnlsCalls[c].pc = "settled" /\ ~nnlsCalls[c].out.thrown

\* C12: an NNLS resolution with zero standards fails with an error and
\* produces no ConcentrationResult.
C12_ZeroStandards ==
    \A c \in Callers :
        (nnlsCalls[c].pc = "settled" /\ nnlsCalls[c].standards = << >>)
            => nnlsCalls[c].out.thrown

\* the sum of the contributions times totalConc
RECURSIVE SumContribution(_, _, _)
SumContribution(comps, i, totalConc) ==
    IF i > Len(comps) THEN 0
    ELSE comps[i].contribution.num * (totalConc \div comps[i].contribution.den)
             + SumContribution(comps, i + 1, totalConc)

\* C13: in every result analyzeConcentration returns, all concentrations are
\* >= 0, and the contribution percentages sum to 100 when the sum of the
\* concentrations is positive and are all 0 otherwise.
C13_Contributions ==
    \A c \in Callers :
        Returned(c) =>
            LET comps == nnlsCalls[c].out.value.components
                totalConc == SumConcentration(comps, 1)
            IN  /\ \A i \in 1..Len(comps) : comps[i].concentration >= 0
                /\ totalConc > 0 =>
                      /\ \A i \in 1..Len(comps) :
                            totalConc % comps[i].contribution.den = 0
                      /\ SumContribution(comps, 1, totalConc) = 100 * totalConc
                /\ totalConc <= 0 =>
                      \A i \in 1..Len(comps) : comps[i].contribution.num = 0

C13_Witness ==
    /\ Returned(1)
    /\ Len(nnlsCalls[1].out.value.components) = 2
    /\ nnlsCalls[1].out.value.components[1].concentration = 799999
    /\ nnlsCalls[1].out.value.components[2].concentration = 450000
    /\ nnlsCalls[1].out.value.components[1].contribution
           # nnlsCalls[1].out.value.components[2].contribution

\* sum over the standards of concentration_i * A_i at point p, in 1/FP
RECURSIVE SumStandards(_, _, _, _)
SumStandards(comps, standards, i, p) ==
    IF i > Len(comps) THEN 0
    ELSE MulFP(absorbance(stored(standards[i]).T)[p], comps[i].concentration)
             + SumStandards(comps, standards, i + 1, p)

\* C14: in every result analyzeConcentration returns, fitted equals the sum
\* over the selected standards of concentration_i times the absorbance of
\* standard_i at each wavelength (within 1e-5), and residual equals the sample
\* absorbance minus fitted.
C14_Fitted ==
    \A c \in Callers :
        (/\ Returned(c)
         /\ \A i \in 1..Len(nnlsCalls[c].standards) :
               stored(nnlsCalls[c].standards[i]) # Null)
            => LET res == nnlsCalls[c].out.value
               IN  \A p \in 1..Len(res.chart_data.fitted) :
                       /\ Abs(res.chart_data.fitted[p]
                                - SumStandards(res.components, nnlsCalls[c].standards, 1, p))
                              <= 10
                       /\ res.chart_data.residual[p]
                              = res.chart_data.original[p] - res.chart_data.fitted[p]

\* C15: two analyzeConcentration calls with the same sample, the same
\* standards list and the same stored records return equal components,
\* metrics and chart data.
C15_Pure ==
    \A c1 \in Callers, c2 \in Callers :
        (/\ Returned(c1)
         /\ Returned(c2)
         /\ nnlsCalls[c1].sample = nnlsCalls[c2].sample
         /\ nnlsCalls[c1].standards = nnlsCalls[c2].standards)
            => nnlsCalls[c1].out.value = nnlsCalls[c2].out.value

\* the name a result gives a standard: meta.name of its record, else the
\* file name
ListedName(fname) ==
    IF stored(fname) # Null THEN metaName(fname) ELSE fname

\* C16: under every interleaving of overlapping analyzeConcentration calls,
\* each call's result lists exactly that call's own standards, in the order
\* given, and its chart data is that call's own sample spectrum.
C16_NoContamination ==
    \A c \in Callers :
        Returned(c) =>
            LET res == nnlsCalls[c].out.value
                own == nnlsCalls[c].standards
            IN  /\ Len(res.components) = Len(own)
                /\ \A i \in 1..Len(own) : res.components[i].name = ListedName(own[i])
                /\ res.chart_data.lambda = stored(nnlsCalls[c].sample).lambda
                /\ res.chart_data.original = absorbance(stored(nnlsCalls[c].sample).T)

C16_Witness ==
    /\ Returned(1)
    /\ Returned(2)
    /\ nnlsCalls[1].sample = "prod_mix_purple.spc"
    /\ nnlsCalls[2].sample = "prod_mix_green.spc"
    /\ nnlsCalls[1].standards = <<"std_red.spc", "std_blue.spc">>
    /\ nnlsCalls[2].standards = <<"std_blue.spc", "std_red.spc">>
    /\ nnlsCalls[1].out.value.chart_data.original
           # nnlsCalls[2].out.value.chart_data.original

(***************************************************************************)
(* Independence of the prediction                                          *)
(***************************************************************************)

\* C17: the prediction (predicted curve and colour) depends only on the base
\* reflectance curve, exhaustionRate and liquorRatio: it is the same for every
\* fabricType and weight, and no step that leaves these three inputs alone,
\* a step of the concentration analysis included, changes it.
C17_Independent ==
    /\ [](baseData # Null =>
             \A ft \in FabricTypes, w \in Weights :
                 predictionMemo[<<fitted, [params EXCEPT !.fabricType = ft, !.weight = w]>>]
                     = prediction)
    /\ [][(/\ baseData' = baseData
           /\ params'.exhaustionRate = params.exhaustionRate
           /\ params'.liquorRatio = params.liquorRatio)
              => prediction' = prediction]_vars

C17_Witness ==
    /\ baseData # Null
    /\ params.fabricType = "Wool"
    /\ params.weight = 50
    /\ params.exhaustionRate = 100
    /\ result # Null
    /\ prediction.color
           = predictionMemo[<<fitted, [InitParams EXCEPT !.exhaustionRate = 100]>>].color
    /\ prediction.rCurve
           = predictionMemo[<<fitted, [InitParams EXCEPT !.exhaustionRate = 100]>>].rCurve

(***************************************************************************)
(* Edge cases of the colour utilities                                      *)
(***************************************************************************)

\* C18: interpolating a curve that has no points fails with an InvalidInput
\* error instead of returning a value.
C18_EmptyCurve ==
    (call.op = "interpolate" /\ Len(call.lambda) = 0) => call.thrown

IsFlat == call.op = "reflectanceToColor" /\ call.lambda = FlatGrid /\ call.R = FlatCurve

ChannelValue(rgb, i) == 16 * HexValue(rgb[2 * i]) + HexValue(rgb[2 * i + 1])

\* C19, as the code has it: for the flat curve R = 0.5 at 400, 410, ..., 700
\* reflectanceToColor returns Lab a and b each within 1.0 of 0 and the rgb
\* #bbbcbb, a mid-gray whose three channels are within 1 of one another.
C19_FlatGray ==
    IsFlat =>
        /\ Abs(call.out.lab.a) <= FP
        /\ Abs(call.out.lab.b) <= FP
        /\ call.out.rgb = <<"#", "b", "b", "b", "c", "b", "b">>
        /\ \A i \in 1..3, j \in 1..3 :
              Abs(ChannelValue(call.out.rgb, i) - ChannelValue(call.out.rgb, j)) <= 1

C19_Witness ==
    /\ IsFlat
    /\ call.out.lab.a = -149000
    /\ call.out.lab.b = 86000
    /\ ChannelValue(call.out.rgb, 2) = 188

\* C19 as stated: Lab a and b within 1.0 of 0 and three equal rgb channels
C19_Original ==
    IsFlat =>
        /\ Abs(call.out.lab.a) <= FP
        /\ Abs(call.out.lab.b) <= FP
        /\ \A i \in 1..3, j \in 1..3 :
              ChannelValue(call.out.rgb, i) = ChannelValue(call.out.rgb, j)

(***************************************************************************)
(* Properties of the user store                                            *)
(***************************************************************************)

HasUser(list, username) == findUser(list, username) # 0

\* C20: after initialisation and after any sequence of addUser, deleteUser
\* and loginUser calls a user named admin exists with role admin and password
\* spectral123; deleteUser('admin') fails and leaves the store unchanged;
\* ordinary users can be added and deleted.
C20_Admin ==
    /\ [](\E i \in 1..Len(users) :
             /\ users[i].username = "admin"
             /\ users[i].role = "admin"
             /\ users[i].password = "spectral123")
    /\ [][deleteUser("admin") => (userOut'.thrown /\ users' = users)]_vars
    /\ [][\A user \in [username : Usernames \ {"admin"}, password : Passwords, role : Roles] :
             (addUser(user) /\ ~HasUser(users, user.username))
                 => (~userOut'.thrown /\ HasUser(users', user.username))]_vars
    /\ [][\A username \in Usernames \ {"admin"} :
             deleteUser(username) => (~userOut'.thrown /\ ~HasUser(users', username))]_vars

C20_Witness ==
    /\ userOut = [op |-> "deleteUser", username |-> "admin", thrown |-> TRUE]
    /\ HasUser(users, "alice")
    /\ users[findUser(users, "admin")].lastLogin = "t1"
    /\ users[findUser(users, "admin")].password = "spectral123"


(***************************************************************************)
(* The session                                                             *)
(***************************************************************************)
\* the stored session has seen no activity for more than SESSION_TIMEOUT
Expired == session # Null /\ now - session.lastActivity > SESSION_TIMEOUT

\* a loginUser call that found the user
LoginSucceeds == LoginUser /\ ~userOut'.thrown

\* C22: getSessionUser returns a user only if a session is stored whose last
\* activity lies at most 30 minutes back, and the user it returns is that
\* session; on a session older than 30 minutes it returns null and removes it
C22_GetSessionUser ==
    [][GetSessionUser =>
          /\ userOut'.value # Null =>
                 /\ session # Null
                 /\ now - session.lastActivity <= 30
                 /\ userOut'.value = session
                 /\ session' = session
          /\ (session # Null /\ now - session.lastActivity > 30) =>
                 /\ userOut'.value = Null
                 /\ session' = Null]_vars

\* getSessionUser has returned the user of a session exactly 30 minutes old
C22_Witness ==
    /\ userOut.op = "getSessionUser"
    /\ userOut.value # Null
    /\ session = userOut.value
    /\ now - session.lastActivity = 30

\* C23: once a session has expired, nothing but a successful loginUser makes
\* getSessionUser return a user again
C23_ExpiryFinal ==
    [][(Expired /\ ~LoginSucceeds) => getSessionUser(session', now').value = Null]_vars

\* C25: the stored session never has a password field, and a failed loginUser
\* leaves the stored session and the user list as they were
C25_NoPassword ==
    /\ [](session # Null => "password" \notin DOMAIN session)
    /\ [][(LoginUser /\ userOut'.thrown) => (session' = session /\ users' = users)]_vars

\* a loginUser has failed while the session of an earlier login is stored
C25_Witness ==
    /\ session # Null
    /\ userOut.op = "loginUser"
    /\ userOut.thrown
    /\ \E i \in 1..Len(users) :
          users[i].username = session.username /\ users[i].password # ""


(***************************************************************************)
(* App: access and the session monitor                                     *)
(***************************************************************************)
\* C21: nothing but the login panel is shown while currentUser is null, the
\* user management panel is shown only to an administrator, the active module
\* is never 'users' for another user, and it is 'preprocessing' whenever
\* nobody is logged in, in particular right after a logout or a timeout
C21_Gated ==
    /\ [](/\ currentUser = Null => Shown = "LoginPanel"
          /\ Shown = "UserManagementPanel" =>
                 (currentUser # Null /\ currentUser.role = "admin")
          /\ (currentUser # Null /\ currentUser.role # "admin") =>
                 activeModule # "users"
          /\ currentUser = Null => activeModule = "preprocessing")
    /\ [][(currentUser # Null /\ currentUser' = Null) =>
             activeModule' = "preprocessing"]_vars

\* a session has timed out: the last call of the user service was a login
\* that succeeded, yet nobody is logged in and no session is stored
C21_Witness ==
    /\ currentUser = Null
    /\ session = Null
    /\ activeModule = "preprocessing"
    /\ userOut.op = "loginUser"
    /\ ~userOut.thrown
    /\ now > SESSION_TIMEOUT

C27_BaseData ==
    itemLoads = << >> =>
        IF selectedHistory = ""
        THEN baseData = Null
        ELSE db[selectedHistory] # Missing =>
                 /\ baseData # Null
                 /\ baseData.chart_data.lambda = db[selectedHistory].lambda
                 /\ baseData.chart_data.fitted = db[selectedHistory].T


(***************************************************************************)
(* App: loading, and the record that is saved                              *)
(***************************************************************************)
\* C26: loading is true exactly while a request of handleProcess or of
\* handleLoadHistoryItem has not settled
C26_Loading == appLoading <=> (appRequests # << >>)

\* C29: the record stored by a click on the save button carries the name, the
\* save type, the concentration and, when one was entered, the dye code of
\* the save form
C29_DyeCode ==
    [][SaveClick =>
          LET saved == db'[saveKey(saveForm.saveName)]
          IN  /\ saved.name = saveForm.saveName
              /\ saved.save_type = saveForm.saveType
              /\ saved.concentration = saveForm.concentration
              /\ saveForm.dyeCode # "" =>
                     /\ "dye_code" \in DOMAIN saved
                     /\ saved.dye_code = saveForm.dyeCode]_vars


(***************************************************************************)
(* ConcentrationPanel: the selection and the library                       *)
(***************************************************************************)
\* C28: selectedStandards has no duplicates and each of its filenames names
\* a record of history whose save_type is 'standard'; selectedSample is empty
\* or names a record of history
C28_Selection ==
    /\ \A i \in 1..Len(selectedStandards) : \A j \in 1..Len(selectedStandards) :
          i # j => selectedStandards[i] # selectedStandards[j]
    /\ \A i \in 1..Len(selectedStandards) :
          \E h \in history :
              h.filename = selectedStandards[i] /\ h.save_type = "standard"
    /\ selectedSample = "" \/ \E h \in history : h.filename = selectedSample


(***************************************************************************)
(* ConcentrationPanel: handleAnalyze ends                                  *)
(***************************************************************************)
\* C30: when every request settles, a handleAnalyze call that has set loading
\* to true sets it back to false, and it does so as the call ends
C30_LoadingEnds ==
    /\ analysisLoading ~> ~analysisLoading
    /\ [](analysisLoading <=> run # NoRun)

\* a call has ended in the catch branch on a calibration text that does not
\* parse, after its first request was answered
C30_Witness ==
    /\ ~analysisLoading
    /\ run = NoRun
    /\ result = Null
    /\ selectedSample # ""
    /\ error # Null
    /\ error.message = "Unexpected end of JSON input"

====
